---- MODULE Spec2Model ----
(***************************************************************************)
(* Model of the background animation engine of the profile card site:      *)
(* the BackgroundRenderer frame loop and lifecycle, the controller         *)
(* (initBackground and its control surface), the time-of-day effects       *)
(* (BaseEffect and its five subclasses), the ParticleSystem and the        *)
(* RabbitCharacter mascot.                                                 *)
(*                                                                         *)
(* Times are in milliseconds.  Opacities are integers in units of          *)
(* 1/OpacityOne.  An array that init() replaces is identified by a         *)
(* generation number (a new number is a new array with new random          *)
(* contents); the contents' movement is the accumulated deltaTime "age".   *)
(***************************************************************************)
EXTENDS Integers, Sequences, FiniteSets, TLC

VARIABLES
    \* --- host (browser) ---
    now,            \* performance.now() / frame timestamps / timer clock
    hidden,         \* document.hidden
    rafQueue,       \* handles of the outstanding requestAnimationFrame callbacks
    nextHandle,     \* last handle requestAnimationFrame returned
    intervals,      \* handles of the live setInterval timers
    listeners,      \* registered event listeners
    dom,            \* ids of the elements this code inserted into the document
    timeouts,       \* pending setTimeout callbacks of the mascot, in creation order
    nextTimer,      \* last id setTimeout / setInterval returned
    frameTime,      \* timestamp of the host's last rendering frame
    \* --- controller (module-level state of the entry point) ---
    loaded,         \* initBackground() has run
    renderer,       \* module-level `renderer`
    updateInterval, \* module-level `updateInterval`
    currentState,   \* module-level `currentState.timePeriod`
    \* --- BackgroundRenderer ---
    isRunning,
    animationId,
    lastTime,
    currentTimePeriod,
    currentPalette,
    canvas,         \* the canvas fields (null before init() and after destroy())
    deltaTime,      \* the deltaTime local of the last executed frame body
    worked,         \* the last step executed the body of animate()
    \* --- layers ---
    particles,      \* ParticleSystem
    eff,            \* the five BaseEffect objects
    drawn,          \* effects that painted in the last draw pass
    trace,          \* the calls the last executed frame body made, in order
    rabbit,         \* RabbitCharacter
    call,           \* the last controller update, or the last method called on a
                    \* layer that is driven directly
    \* --- profile card (language and flip modules) ---
    localStorage,   \* the "lang" item and whether storage can be read and written
    currentLang,    \* module-level `currentLang` of the language module
    isHintAnimating,\* module-level `isHintAnimating` of the flip module
    cardClasses,    \* classList of the card element
    content,        \* what loadContent() has put into the card
    \* --- renderers the controller no longer refers to ---
    orphans         \* the loop fields and listeners of each such renderer

vars == << now, hidden, rafQueue, nextHandle, intervals, listeners, dom,
           timeouts, nextTimer, frameTime, loaded, renderer, updateInterval, currentState,
           isRunning, animationId, lastTime, currentTimePeriod, currentPalette,
           canvas, deltaTime, worked, particles, eff, drawn, trace, rabbit, call,
           localStorage, currentLang, isHintAnimating, cardClasses, content,
           orphans >>

\* the state outside the engine of the current renderer
extraVars == << localStorage, currentLang, isHintAnimating, cardClasses, content,
               orphans >>

loopVars == << isRunning, animationId, lastTime, rafQueue, nextHandle >>
layerVars == << particles, eff, rabbit >>
mascotHostVars == << timeouts, nextTimer >>

NULL == "null"
\* the BackgroundRenderer whose init() threw: every layer field is null
Uninitialised == "uninitialised"
\* null in a field that holds a timer or frame handle (handles are positive)
NoHandle == 0

\* no method has been called yet
NoCall == [op |-> "none", on |-> NULL, arg |-> NULL]

\* ------------------------------------------------------------------ bounds
MaxNow == 151
MaxHandle == 3
MaxGen == 2
MaxInits == 5
MaxEffTime == 4
MaxMascotNow == 720
MaxMascotTime == 200
MaxHearts == 2
MaxTimers == 2

\* clock advances between two steps of the program
TickSteps == {50, 101}
\* deltaTime values handed to a layer that is driven directly
DeltaTimes == {1, 2}
MascotTickSteps == {80}
MascotDeltaTimes == {50, 100}

\* --------------------------------------------------------- program constants
TIME_PERIOD == {"MORNING", "NOON", "EVENING", "NIGHT"}
FALLBACK_DELTA == 16
MAX_DELTA == 100
CLICK_JUMP_DURATION == 400
HEART_DURATION == 1000

Canvases == {"bg-canvas", "overlay-canvas", "rabbit-canvas"}
HitArea == "rabbit-hit-area"
RendererListeners == {"resize", "visibilitychange"}
HitClick == "rabbit-hit-area.click"

\* =================================================================
\* Time-of-day effects (BaseEffect and subclasses)
\* =================================================================
EffectNames == {"morningMist", "godRays", "dustParticles", "eveningClouds",
                "fireflySystem"}

\* the order in which the renderer calls the effects
EffectOrder == << "morningMist", "godRays", "dustParticles", "eveningClouds",
                  "fireflySystem" >>

\* super(TIME_PERIOD.X) of each subclass constructor
targetTimePeriod(e) ==
    CASE e = "morningMist"   -> "MORNING"
      [] e = "godRays"       -> "NOON"
      [] e = "dustParticles" -> "NOON"
      [] e = "eveningClouds" -> "EVENING"
      [] e = "fireflySystem" -> "NIGHT"

\* effects whose update() advances this.time
TimedEffects == {"morningMist", "godRays", "eveningClouds"}
\* effects whose update() moves the elements of the particle array
MovingEffects == {"morningMist", "dustParticles", "fireflySystem"}
\* effects whose draw() also returns early without a palette
PaletteEffects == {"morningMist", "godRays", "eveningClouds"}

\* BaseEffect constructor: inactive, time 0, the empty array (generation 0)
BaseEffect_constructor == [isActive |-> FALSE, time |-> 0, arr |-> 0, age |-> 0]

\* init() of a subclass: a new array with new random elements; this.time is kept
BaseEffect_init(x) == [x EXCEPT !.arr = x.arr + 1, !.age = 0]

\* variant: init() on every call that leaves the effect active
BaseEffect_setTimePeriod_initEveryCall(x, e, timePeriod) ==
    LET y == [x EXCEPT !.isActive = (timePeriod = targetTimePeriod(e))]
    IN  IF y.isActive THEN BaseEffect_init(y) ELSE y

\* variant: an active effect is never deactivated
BaseEffect_setTimePeriod_sticky(x, e, timePeriod) ==
    LET wasActive == x.isActive
        y == [x EXCEPT !.isActive = (wasActive \/ timePeriod = targetTimePeriod(e))]
    IN  IF y.isActive /\ ~wasActive THEN BaseEffect_init(y) ELSE y

BaseEffect_setTimePeriod(x, e, timePeriod) ==
    LET wasActive == x.isActive
        y == [x EXCEPT !.isActive = (timePeriod = targetTimePeriod(e))]
    IN  IF y.isActive /\ ~wasActive THEN BaseEffect_init(y) ELSE y

BaseEffect_resize(x) == IF x.isActive THEN BaseEffect_init(x) ELSE x

\* variant: update() without the isActive guard
BaseEffect_update_unguarded(x, e, dt) ==
    [x EXCEPT !.time = IF e \in TimedEffects THEN x.time + dt ELSE x.time,
              !.age  = IF e \in MovingEffects THEN x.age + dt ELSE x.age]

BaseEffect_update(x, e, dt) ==
    IF ~x.isActive THEN x
    ELSE [x EXCEPT !.time = IF e \in TimedEffects THEN x.time + dt ELSE x.time,
                   !.age  = IF e \in MovingEffects THEN x.age + dt ELSE x.age]

\* draw() changes no state; TRUE when it paints
BaseEffect_draw(x, e, palette) ==
    IF ~x.isActive \/ (e \in PaletteEffects /\ palette = NULL) THEN FALSE ELSE TRUE

\* =================================================================
\* ParticleSystem
\* =================================================================
\* a coordinate is the fraction n / d in lowest terms, d > 0
RECURSIVE Gcd(_, _)
Gcd(a, b) == IF b = 0 THEN a ELSE Gcd(b, a % b)

Frac(n, d) ==
    LET g == Gcd(IF n < 0 THEN -n ELSE n, d)
    IN  IF n = 0 THEN [n |-> 0, d |-> 1] ELSE [n |-> n \div g, d |-> d \div g]

FracAdd(x, y) == Frac(x.n * y.d + y.n * x.d, x.d * y.d)
\* (x / m) * k for positive integers m, k
FracScale(x, m, k) == Frac(x.n * k, x.d * m)

\* window.innerWidth / innerHeight in units of 100 pixels: the sizes the
\* window takes, and its size when the page loads
WindowSizes == {[w |-> 8, h |-> 6], [w |-> 4, h |-> 9]}
LoadWindow == [w |-> 8, h |-> 6]
\* the sizes a resize event of the page reports: the event is delivered with
\* the viewport as it was (the particle system is resized to other sizes
\* where it is driven directly)
PageWindowSizes == {LoadWindow}

\* DEPTH_LAYERS
DepthLayers == << "far", "middle", "front" >>

\* new LightOrb(): reset(true) draws the size, phases, amplitude, frequency
\* and speed at random (the draw is identified by `seed`: the generation of
\* the array and the layer) and a position inside the cached viewport
LightOrb(gen, i, w, h) ==
    [seed |-> << gen, DepthLayers[i] >>,
     x |-> Frac(w * i, 4), y |-> Frac(h * (4 - i), 4), time |-> 0]

\* LightOrb.update(deltaTime): time advances, the orb sways and floats up
\* (one tenth of a length unit each per millisecond here); an orb is reset
\* only once it has left the viewport through the top
LightOrb_update(orb, dt) ==
    [orb EXCEPT !.time = orb.time + dt,
                !.x = FracAdd(orb.x, Frac(dt, 10)),
                !.y = FracAdd(orb.y, Frac(-dt, 10))]

\* constructor: empty layers, the viewport size cached
ParticleSystem_constructor(win) ==
    [timePeriod |-> "NOON", orbs |-> 0, age |-> 0,
     width |-> win.w, height |-> win.h,
     layers |-> [l \in 1..Len(DepthLayers) |-> << >>]]

\* init(timePeriod): the layers are replaced by new orbs
ParticleSystem_init(ps, timePeriod) ==
    [ps EXCEPT !.timePeriod = timePeriod, !.orbs = ps.orbs + 1, !.age = 0,
               !.layers = [l \in 1..Len(DepthLayers) |->
                              << LightOrb(ps.orbs + 1, l, ps.width, ps.height) >>]]

ParticleSystem_update(ps, dt) ==
    [ps EXCEPT !.age = ps.age + dt,
               !.layers = [l \in 1..Len(DepthLayers) |->
                              [j \in 1..Len(ps.layers[l]) |->
                                  LightOrb_update(ps.layers[l][j], dt)]]]

\* variant: resize() spawns the orbs again for the new viewport
ParticleSystem_resize_respawns(ps, win) ==
    ParticleSystem_init([ps EXCEPT !.width = win.w, !.height = win.h], ps.timePeriod)

\* resize(): the existing orbs are kept; orb.x = (orb.x / oldWidth) * width,
\* orb.y = (orb.y / oldHeight) * height
ParticleSystem_resize(ps, win) ==
    [ps EXCEPT !.width = win.w, !.height = win.h,
               !.layers = [l \in 1..Len(DepthLayers) |->
                              [j \in 1..Len(ps.layers[l]) |->
                                  [ps.layers[l][j] EXCEPT
                                      !.x = FracScale(@, ps.width, win.w),
                                      !.y = FracScale(@, ps.height, win.h)]]]]

\* =================================================================
\* RabbitCharacter (mascot)
\* =================================================================
RabbitStates == {"idle", "jumping", "eating", "sitting", "sleeping", "angry"}

\* opacity 1, in the integer unit used for opacities
OpacityOne == HEART_DURATION * 4

\* duration of the anger transient and of an anger mark: x * 0.8
Times08(x) == (x * 4) \div 5

\* the switch of updateStateForTimePeriod()
PeriodState(timePeriod) ==
    CASE timePeriod = "MORNING" -> "jumping"
      [] timePeriod = "NOON"    -> "eating"
      [] timePeriod = "EVENING" -> "sitting"
      [] timePeriod = "NIGHT"   -> "sleeping"
      [] OTHER                  -> "idle"

\* constructor: state "idle", timePeriod NOON, no click, no overlays.
\* jumpOffset is "zero", "jump" (|sin(time*JUMP_SPEED)|*JUMP_HEIGHT) or
\* "click" (sin(progress*PI)*CLICK_JUMP_HEIGHT).
RabbitCharacter_constructor ==
    [state |-> "idle", timePeriod |-> "NOON", time |-> 0, animFrame |-> 0,
     isClicking |-> FALSE, clickStartTime |-> 0, jumpOffset |-> "zero",
     hearts |-> << >>, angerMarks |-> << >>]

\* variant: updateStateForTimePeriod() without the isClicking guard
updateStateForTimePeriod_unguarded(r) == [r EXCEPT !.state = PeriodState(r.timePeriod)]

updateStateForTimePeriod(r) ==
    IF r.isClicking THEN r ELSE [r EXCEPT !.state = PeriodState(r.timePeriod)]

RabbitCharacter_setTimePeriod(r, timePeriod) ==
    updateStateForTimePeriod([r EXCEPT !.timePeriod = timePeriod])

\* the delay onClick() passes to setTimeout
ClickTimeout(r) ==
    IF r.timePeriod = "NIGHT" THEN Times08(CLICK_JUMP_DURATION)
    ELSE CLICK_JUMP_DURATION

\* variant: onClick() without the NIGHT branch
onClick_alwaysHeart(r) ==
    [r EXCEPT !.isClicking = TRUE, !.clickStartTime = r.time,
              !.state = "jumping",
              !.hearts = Append(r.hearts,
                   [opacity |-> OpacityOne, startTime |-> r.time, rise |-> 0])]

\* onClick(): the state change (the timer is set by the action)
onClick(r) ==
    IF r.timePeriod = "NIGHT"
    THEN [r EXCEPT !.isClicking = TRUE, !.clickStartTime = r.time,
                   !.state = "angry",
                   !.angerMarks = Append(r.angerMarks,
                        [opacity |-> OpacityOne, startTime |-> r.time])]
    ELSE [r EXCEPT !.isClicking = TRUE, !.clickStartTime = r.time,
                   !.state = "jumping",
                   !.hearts = Append(r.hearts,
                        [opacity |-> OpacityOne, startTime |-> r.time, rise |-> 0])]

\* the setTimeout callback of onClick()
clickTimerCallback(r) == updateStateForTimePeriod([r EXCEPT !.isClicking = FALSE])

\* variant: the opacity decays at half the rate
FadedOpacity_halfRate(elapsed, duration) ==
    OpacityOne - (elapsed * OpacityOne) \div (2 * duration)

\* opacity = 1 - elapsed / duration
FadedOpacity(elapsed, duration) == OpacityOne - (elapsed * OpacityOne) \div duration

RECURSIVE FilterHearts(_, _, _)
FilterHearts(hs, t, dt) ==
    IF hs = << >> THEN << >>
    ELSE LET h == Head(hs)
             g == [h EXCEPT !.rise = h.rise + dt,
                            !.opacity = FadedOpacity(t - h.startTime, HEART_DURATION)]
         IN  IF g.opacity > 0 THEN << g >> \o FilterHearts(Tail(hs), t, dt)
             ELSE FilterHearts(Tail(hs), t, dt)

RECURSIVE FilterAngerMarks(_, _)
FilterAngerMarks(ms, t) ==
    IF ms = << >> THEN << >>
    ELSE LET m == Head(ms)
             g == [m EXCEPT !.opacity =
                      FadedOpacity(t - m.startTime, Times08(HEART_DURATION))]
         IN  IF g.opacity > 0 THEN << g >> \o FilterAngerMarks(Tail(ms), t)
             ELSE FilterAngerMarks(Tail(ms), t)

RabbitCharacter_update(r, dt) ==
    LET t == r.time + dt
        periodJump == IF r.state = "jumping" THEN "jump" ELSE "zero"
        jump == IF r.isClicking /\ r.state # "angry" THEN "click" ELSE periodJump
    IN  [r EXCEPT !.time = t,
                  !.animFrame = (t \div 200) % 2,
                  !.jumpOffset = jump,
                  !.hearts = FilterHearts(r.hearts, t, dt),
                  !.angerMarks = FilterAngerMarks(r.angerMarks, t)]

\* =================================================================
\* BackgroundRenderer: frame loop
\* =================================================================
\* the fields start(), pause(), resume() and animate() touch, with the host's
\* queue of frame callbacks
Loop == [isRunning |-> isRunning, animationId |-> animationId,
         lastTime |-> lastTime, rafQueue |-> rafQueue, nextHandle |-> nextHandle]

SetLoop(L) ==
    /\ isRunning' = L.isRunning
    /\ animationId' = L.animationId
    /\ lastTime' = L.lastTime
    /\ rafQueue' = L.rafQueue
    /\ nextHandle' = L.nextHandle

\* this.animationId = requestAnimationFrame(this.animate)
requestAnimationFrame(L) ==
    [L EXCEPT !.nextHandle = L.nextHandle + 1,
              !.rafQueue = L.rafQueue \cup {L.nextHandle + 1},
              !.animationId = L.nextHandle + 1]

start(L, t) ==
    IF L.isRunning THEN L
    ELSE requestAnimationFrame([L EXCEPT !.isRunning = TRUE, !.lastTime = t])

\* variant: pause() that forgets the handle without cancelling the callback
pause_keepsCallback(L) == [L EXCEPT !.isRunning = FALSE, !.animationId = NoHandle]

pause(L) ==
    IF L.animationId # NoHandle
    THEN [L EXCEPT !.isRunning = FALSE,
                   !.rafQueue = L.rafQueue \ {L.animationId},
                   !.animationId = NoHandle]
    ELSE [L EXCEPT !.isRunning = FALSE]

\* variant: resume() with the test on isRunning inverted
resume_ifRunning(L, t) == IF L.isRunning THEN start(L, t) ELSE L

resume(L, t) == IF ~L.isRunning THEN start(L, t) ELSE L

\* handleVisibility() on the loop fields of its renderer
handleVisibility(L, hid, t) == IF hid THEN pause(L) ELSE resume(L, t)

\* const deltaTime = this.lastTime === 0 || rawDelta > 100 ? 16 : rawDelta
FrameDelta(last, currentTime) ==
    LET rawDelta == currentTime - last
    IN  IF last = 0 \/ rawDelta > MAX_DELTA THEN FALLBACK_DELTA ELSE rawDelta

\* =================================================================
\* BackgroundRenderer: conditions and resize, applied to the layers
\* =================================================================
Layers == [particles |-> particles, eff |-> eff, rabbit |-> rabbit]

\* updateConditions(timePeriod, palette), the part that touches the layers
Renderer_updateLayers(Y, timePeriod) ==
    [particles |-> ParticleSystem_init(Y.particles, timePeriod),
     eff |-> [e \in EffectNames |-> BaseEffect_setTimePeriod(Y.eff[e], e, timePeriod)],
     rabbit |-> RabbitCharacter_setTimePeriod(Y.rabbit, timePeriod)]

\* handleResize(), the part that touches the layers
Renderer_resizeLayers(Y, win) ==
    [particles |-> ParticleSystem_resize(Y.particles, win),
     eff |-> [e \in EffectNames |-> BaseEffect_resize(Y.eff[e])],
     rabbit |-> Y.rabbit]

\* the layer updates of one frame
Renderer_frameLayers(Y, dt) ==
    [particles |-> ParticleSystem_update(Y.particles, dt),
     eff |-> [e \in EffectNames |-> BaseEffect_update(Y.eff[e], e, dt)],
     rabbit |-> RabbitCharacter_update(Y.rabbit, dt)]

\* one call of the frame body: the function or method, and the canvas or
\* layer it is applied to
Call(op, on) == [op |-> op, on |-> on]

\* update(deltaTime) then draw() of the effects, in the order of the source
RECURSIVE EffectCalls(_)
EffectCalls(i) ==
    IF i = 0 THEN << >>
    ELSE EffectCalls(i - 1) \o << Call("update", EffectOrder[i]),
                                  Call("draw", EffectOrder[i]) >>

\* the statements of the frame body before requestAnimationFrame
Renderer_bodyCalls ==
    << Call("clearCanvas", "ctx"), Call("clearCanvas", "overlayCtx"),
       Call("clearCanvas", "rabbitCtx"),
       Call("drawGradient", "ctx"), Call("drawCelestial", "ctx"),
       Call("drawShapes", "ctx"),
       Call("update", "particleSystem"), Call("draw", "particleSystem") >>
    \o EffectCalls(Len(EffectOrder))
    \o << Call("update", "rabbitCharacter"), Call("draw", "rabbitCharacter") >>

\* variant: the next frame is requested before the layers are processed
Renderer_frameCalls_scheduleFirst ==
    << Call("requestAnimationFrame", "animate") >> \o Renderer_bodyCalls

\* the calls of animate() after the isRunning guard, in source order
Renderer_frameCalls ==
    Renderer_bodyCalls \o << Call("requestAnimationFrame", "animate") >>

\* the objects createCanvases() constructs
Renderer_newLayers ==
    [particles |-> ParticleSystem_constructor(LoadWindow),
     eff |-> [e \in EffectNames |-> BaseEffect_constructor],
     rabbit |-> RabbitCharacter_constructor]

SetLayers(Y) ==
    /\ particles' = Y.particles
    /\ eff' = Y.eff
    /\ rabbit' = Y.rabbit

\* the number of init() calls the layers have made so far
RECURSIVE SumArr(_, _)
SumArr(E, i) == IF i = 0 THEN 0 ELSE E[EffectOrder[i]].arr + SumArr(E, i - 1)

InitCalls(Y) == Y.particles.orbs + SumArr(Y.eff, Len(EffectOrder))

\* the layers have not made more init() calls than the bound
GensWithin(Y) == InitCalls(Y) <= MaxInits

\* the effects that paint in a draw pass
Painted(E, palette) == {e \in EffectNames : BaseEffect_draw(E[e], e, palette)}

\* =================================================================
\* Initial state: the page before the entry point has run.  The layer
\* variables hold the objects as their constructors leave them.
\* =================================================================
\* the language module evaluated with nothing stored, the card untouched, and
\* no renderer besides the controller's
NoStorage == [readable |-> TRUE, writable |-> TRUE, lang |-> NULL]
InitExtra ==
    /\ localStorage = NoStorage
    /\ currentLang = "en"
    /\ isHintAnimating = FALSE
    /\ cardClasses = {}
    /\ content = "none"
    /\ orphans = << >>

InitObjects ==
    /\ rafQueue = {}
    /\ nextHandle = 0
    /\ intervals = {}
    /\ listeners = {}
    /\ dom = {}
    /\ timeouts = << >>
    /\ nextTimer = 0
    /\ frameTime = 0
    /\ loaded = FALSE
    /\ renderer = NULL
    /\ updateInterval = NoHandle
    /\ currentState = NULL
    /\ isRunning = FALSE
    /\ animationId = NoHandle
    /\ lastTime = 0
    /\ currentTimePeriod = NULL
    /\ currentPalette = NULL
    /\ canvas = NULL
    /\ deltaTime = 0
    /\ worked = FALSE
    /\ particles = ParticleSystem_constructor(LoadWindow)
    /\ eff = [e \in EffectNames |-> BaseEffect_constructor]
    /\ drawn = {}
    /\ trace = << >>
    /\ rabbit = RabbitCharacter_constructor
    /\ InitExtra

\* the script runs some time after the page's time origin
LoadTime == CHOOSE d \in TickSteps : \A x \in TickSteps : d <= x

\* the page may be loaded in a background tab
Init ==
    /\ InitObjects
    /\ now = LoadTime
    /\ hidden \in BOOLEAN
    /\ call = NoCall

\* =================================================================
\* Actions of the page: host events, controller, renderer
\* =================================================================
\* the clock advances
Tick ==
    /\ \E d \in TickSteps : now + d <= MaxNow /\ now' = now + d
    /\ worked' = FALSE
    /\ UNCHANGED << hidden, rafQueue, nextHandle, intervals, listeners, dom,
                    timeouts, nextTimer, frameTime, loaded, renderer,
                    updateInterval, currentState, isRunning, animationId,
                    lastTime, currentTimePeriod, currentPalette, canvas,
                    deltaTime, particles, eff, drawn, trace, extraVars, rabbit, call >>

\* the palette the controller builds is keyed by the transition's `to`
\* period: the classified period, or the next one ahead of a boundary
NextPeriod(p) ==
    CASE p = "NIGHT"   -> "MORNING"
      [] p = "MORNING" -> "NOON"
      [] p = "NOON"    -> "EVENING"
      [] p = "EVENING" -> "NIGHT"

\* initBackground(): new BackgroundRenderer().init(), updateConditions(),
\* renderer.start(), startPeriodicUpdates()
\* the fields of a renderer that has just been constructed, with the host's
\* queue of frame callbacks as it is
NewLoop == [Loop EXCEPT !.isRunning = FALSE, !.animationId = NoHandle,
                        !.lastTime = 0]

\* a complete run of initBackground() at a time of day classified as one of
\* `periods`
constructBackground(periods) ==
    /\ loaded' = TRUE
    /\ renderer' = "renderer"
    \* createCanvases(), new RabbitCharacter() -> createHitArea(), setupEventListeners()
    /\ canvas' = "canvas"
    /\ dom' = dom \cup Canvases \cup {HitArea}
    /\ listeners' = listeners \cup {HitClick} \cup RendererListeners
    \* updateConditions()
    /\ \E p \in periods : \E to \in {p, NextPeriod(p)} :
          /\ currentState' = p
          /\ call' = [op |-> "updateConditions", on |-> "controller", arg |-> p]
          /\ currentTimePeriod' = p
          /\ currentPalette' = to
          /\ SetLayers(Renderer_updateLayers(Renderer_newLayers, p))
    \* renderer.start()
    /\ SetLoop(start(NewLoop, now))
    \* startPeriodicUpdates()
    /\ nextTimer' = nextTimer + 1
    /\ updateInterval' = nextTimer + 1
    /\ intervals' = intervals \cup {nextTimer + 1}
    /\ worked' = FALSE
    /\ UNCHANGED << now, hidden, timeouts, frameTime, deltaTime, drawn, trace >>

\* initBackground() when every createCanvas() obtains its 2D context
initBackground_ok == constructBackground(TIME_PERIOD) /\ UNCHANGED extraVars

\* a createCanvases() that inserts each canvas as soon as it is created
initBackground_throws_afterInsert ==
    /\ renderer' = Uninitialised
    /\ canvas' = "canvas"
    /\ dom' = (dom \ Canvases) \cup {"bg-canvas"}
    /\ call' = [op |-> "throw", on |-> "initBackground", arg |-> "Error"]
    /\ worked' = FALSE
    /\ UNCHANGED << now, hidden, rafQueue, nextHandle, intervals, listeners,
                    timeouts, nextTimer, frameTime, loaded, updateInterval,
                    currentState, isRunning, animationId, lastTime,
                    currentTimePeriod, currentPalette, deltaTime, particles, eff,
                    drawn, trace, extraVars, rabbit >>

\* initBackground() when getContext("2d") returns null for the k-th canvas:
\* createCanvas throws out of createCanvases(), init() and initBackground().
\* The module-level renderer is already assigned; the canvases created before
\* the k-th are held in fields but not inserted; nothing after
\* createCanvases() has run.
initBackground_throws ==
    /\ renderer' = Uninitialised
    /\ \E k \in 1..3 : canvas' = IF k = 1 THEN NULL ELSE "canvas"
    \* removeExistingCanvas() of the three ids
    /\ dom' = dom \ Canvases
    /\ call' = [op |-> "throw", on |-> "initBackground", arg |-> "Error"]
    /\ worked' = FALSE
    /\ UNCHANGED << now, hidden, rafQueue, nextHandle, intervals, listeners,
                    timeouts, nextTimer, frameTime, loaded, updateInterval,
                    currentState, isRunning, animationId, lastTime,
                    currentTimePeriod, currentPalette, deltaTime, particles, eff,
                    drawn, trace, extraVars, rabbit >>

initBackground ==
    /\ ~loaded /\ renderer = NULL
    /\ \/ initBackground_ok
       \/ initBackground_throws

\* the controller replaces currentState and pushes the period p and the
\* palette of period `to` to the renderer; op is the function that did it
applyConditions(p, to, op) ==
    /\ currentState' = p
    /\ IF renderer = "renderer"
       THEN /\ currentPalette' = to
            /\ currentTimePeriod' = p
            /\ GensWithin(Renderer_updateLayers(Layers, p))
            /\ SetLayers(Renderer_updateLayers(Layers, p))
            /\ call' = [op |-> op, on |-> "controller", arg |-> p]
       ELSE IF renderer = Uninitialised
       \* renderer.updateConditions() sets its two fields and then throws a
       \* TypeError at this.particleSystem.init: particleSystem is null
       THEN /\ currentPalette' = to
            /\ currentTimePeriod' = p
            /\ call' = [op |-> "throw", on |-> op, arg |-> "TypeError"]
            /\ UNCHANGED << particles, eff, rabbit >>
       ELSE /\ call' = [op |-> op, on |-> "controller", arg |-> p]
            /\ UNCHANGED << currentPalette, currentTimePeriod, particles, eff, rabbit >>
    /\ worked' = FALSE
    /\ UNCHANGED << now, hidden, rafQueue, nextHandle, intervals, listeners, dom,
                    timeouts, nextTimer, frameTime, loaded, renderer,
                    updateInterval, isRunning, animationId, lastTime, canvas,
                    deltaTime, drawn, trace, extraVars >>

\* updateConditions() of the controller, with the classified period p and
\* the palette period `to`
updateConditions(p, to) == applyConditions(p, to, "updateConditions")

\* the setInterval callback of startPeriodicUpdates()
PeriodicUpdate ==
    /\ intervals # {}
    /\ \E p \in TIME_PERIOD : \E to \in {p, NextPeriod(p)} : updateConditions(p, to)

\* refresh: () => updateConditions()
ApiRefresh ==
    /\ loaded
    /\ \E p \in TIME_PERIOD : \E to \in {p, NextPeriod(p)} : updateConditions(p, to)

\* setDebugConditions({timePeriod})
setDebugConditions ==
    /\ renderer # NULL
    /\ \/ \E p \in TIME_PERIOD : applyConditions(p, p, "setDebugConditions")
       \* no timePeriod option and no state yet: getColorPalette(null) throws
       \* a TypeError before anything is written
       \/ /\ currentState = NULL
          /\ call' = [op |-> "throw", on |-> "getColorPalette", arg |-> "TypeError"]
          /\ UNCHANGED << now, hidden, rafQueue, nextHandle, intervals,
                          listeners, dom, timeouts, nextTimer, frameTime, loaded,
                          renderer, updateInterval, currentState, isRunning,
                          animationId, lastTime, currentTimePeriod,
                          currentPalette, canvas, deltaTime, worked, particles,
                          eff, drawn, trace, extraVars, rabbit >>

\* the host runs the frame callback h: animate(currentTime)
animate(h) ==
    /\ h \in rafQueue
    /\ ~hidden
    /\ now > frameTime
    /\ frameTime' = now
    /\ IF ~isRunning
       THEN /\ rafQueue' = rafQueue \ {h}
            /\ worked' = FALSE
            /\ UNCHANGED << nextHandle, isRunning, animationId, lastTime,
                            deltaTime, particles, eff, drawn, trace, extraVars, rabbit, call >>
       ELSE LET dt == FrameDelta(lastTime, now)
                L == requestAnimationFrame(
                        [Loop EXCEPT !.lastTime = now, !.rafQueue = rafQueue \ {h}])
                Y == Renderer_frameLayers(Layers, dt)
            IN  /\ L.nextHandle <= MaxHandle
                /\ deltaTime' = dt
                /\ SetLayers(Y)
                /\ drawn' = Painted(Y.eff, currentPalette)
                /\ trace' = Renderer_frameCalls
                /\ SetLoop(L)
                /\ worked' = TRUE
    /\ UNCHANGED << extraVars, now, hidden, intervals, listeners, dom, timeouts, nextTimer,
                    loaded, renderer, updateInterval, currentState,
                    currentTimePeriod, currentPalette, canvas, call >>

Frame == \E h \in rafQueue : animate(h)

\* only the loop fields change
LoopFields(L) ==
    /\ L.nextHandle <= MaxHandle
    /\ SetLoop(L)
    /\ worked' = FALSE
    /\ UNCHANGED << now, hidden, intervals, listeners, dom, timeouts, nextTimer,
                    frameTime, loaded, renderer, updateInterval, currentState,
                    currentTimePeriod, currentPalette, canvas, deltaTime,
                    particles, eff, drawn, trace, rabbit >>

LoopStep(L) == LoopFields(L) /\ UNCHANGED << extraVars, call >>

\* renderer.start() called on the live renderer
RendererStart == renderer = "renderer" /\ LoopStep(start(Loop, now))

\* pause: () => renderer?.pause()
ApiPause == loaded /\ LoopStep(IF renderer = NULL THEN Loop ELSE pause(Loop))

\* resume: () => renderer?.resume()
ApiResume == loaded /\ LoopStep(IF renderer = NULL THEN Loop ELSE resume(Loop, now))

\* the tab is hidden or shown; handleVisibility() runs when it is registered
VisibilityChange ==
    /\ hidden' = ~hidden
    /\ LET L == IF "visibilitychange" \notin listeners THEN Loop
                ELSE IF hidden' THEN pause(Loop) ELSE resume(Loop, now)
       IN  L.nextHandle <= MaxHandle /\ SetLoop(L)
    /\ worked' = FALSE
    /\ UNCHANGED << now, intervals, listeners, dom, timeouts, nextTimer,
                    frameTime, loaded, renderer, updateInterval, currentState,
                    currentTimePeriod, currentPalette, canvas, deltaTime,
                    particles, eff, drawn, trace, extraVars, rabbit, call >>

\* the window is resized: handleResize()
handleResize ==
    /\ "resize" \in listeners
    /\ \E win \in PageWindowSizes :
          /\ GensWithin(Renderer_resizeLayers(Layers, win))
          /\ SetLayers(Renderer_resizeLayers(Layers, win))
    /\ worked' = FALSE
    /\ UNCHANGED << now, hidden, rafQueue, nextHandle, intervals, listeners, dom,
                    timeouts, nextTimer, frameTime, loaded, renderer,
                    updateInterval, currentState, isRunning, animationId,
                    lastTime, currentTimePeriod, currentPalette, canvas,
                    deltaTime, drawn, trace, extraVars, call >>

\* destroy: () => { stopPeriodicUpdates(); renderer?.destroy(); renderer = null }
\* BackgroundRenderer.destroy(): pause(), remove the two listeners, remove the
\* three canvases, null the fields.  RabbitCharacter.destroy() is not called.
ApiDestroy ==
    /\ loaded
    /\ IF updateInterval # NoHandle
       THEN intervals' = intervals \ {updateInterval} /\ updateInterval' = NoHandle
       ELSE UNCHANGED << intervals, updateInterval >>
    /\ IF renderer # NULL
       THEN /\ SetLoop(pause(Loop))
            /\ listeners' = listeners \ RendererListeners
            /\ dom' = IF canvas # NULL THEN dom \ Canvases ELSE dom
            /\ canvas' = NULL
       ELSE UNCHANGED << isRunning, animationId, lastTime, rafQueue, nextHandle,
                         listeners, dom, canvas >>
    /\ renderer' = NULL
    /\ worked' = FALSE
    /\ UNCHANGED << now, hidden, timeouts, nextTimer, frameTime, loaded,
                    currentState, currentTimePeriod, currentPalette, deltaTime,
                    particles, eff, drawn, trace, extraVars, rabbit, call >>

Next ==
    \/ Tick
    \/ initBackground
    \/ PeriodicUpdate
    \/ ApiRefresh
    \/ setDebugConditions
    \/ Frame
    \/ RendererStart
    \/ ApiPause
    \/ ApiResume
    \/ VisibilityChange
    \/ handleResize
    \/ ApiDestroy

Spec == Init /\ [][Next]_vars

\* =================================================================
\* One effect driven directly: any sequence of setTimePeriod, resize,
\* update and draw calls on the five effect objects
\* =================================================================
rendererVars == << now, hidden, rafQueue, nextHandle, intervals, listeners, dom,
                   frameTime, loaded, renderer, updateInterval, currentState,
                   isRunning, animationId, lastTime, currentTimePeriod,
                   currentPalette, canvas, deltaTime, worked, particles >>

\* one of the five effect objects, just constructed
InitEffect ==
    /\ InitObjects
    /\ now = LoadTime
    /\ hidden = FALSE
    /\ \E e \in EffectNames : call = [op |-> "new", on |-> e, arg |-> NULL]

Effect_setTimePeriod(e, p) ==
    /\ e = call.on
    /\ eff[e].arr < MaxGen
    /\ eff' = [eff EXCEPT ![e] = BaseEffect_setTimePeriod(eff[e], e, p)]
    /\ call' = [op |-> "setTimePeriod", on |-> e, arg |-> p]
    /\ UNCHANGED << rendererVars, timeouts, nextTimer, drawn, trace, extraVars, rabbit >>

Effect_resize(e) ==
    /\ e = call.on
    /\ eff[e].arr < MaxGen
    /\ eff' = [eff EXCEPT ![e] = BaseEffect_resize(eff[e])]
    /\ call' = [op |-> "resize", on |-> e, arg |-> NULL]
    /\ UNCHANGED << rendererVars, timeouts, nextTimer, drawn, trace, extraVars, rabbit >>

Effect_update(e, dt) ==
    /\ e = call.on
    /\ eff[e].time + dt <= MaxEffTime
    /\ eff[e].age + dt <= MaxEffTime
    /\ eff' = [eff EXCEPT ![e] = BaseEffect_update(eff[e], e, dt)]
    /\ call' = [op |-> "update", on |-> e, arg |-> NULL]
    /\ UNCHANGED << rendererVars, timeouts, nextTimer, drawn, trace, extraVars, rabbit >>

Effect_draw(e, palette) ==
    /\ e = call.on
    /\ drawn' = IF BaseEffect_draw(eff[e], e, palette) THEN {e} ELSE {}
    /\ call' = [op |-> "draw", on |-> e, arg |-> palette]
    /\ UNCHANGED << rendererVars, timeouts, nextTimer, eff, trace, extraVars, rabbit >>

EffectSetTimePeriod == \E e \in EffectNames : \E p \in TIME_PERIOD : Effect_setTimePeriod(e, p)
EffectResize == \E e \in EffectNames : Effect_resize(e)
EffectUpdate == \E e \in EffectNames : \E dt \in DeltaTimes : Effect_update(e, dt)
EffectDraw == \E e \in EffectNames : \E palette \in {NULL} \cup TIME_PERIOD : Effect_draw(e, palette)

NextEffect ==
    \/ EffectSetTimePeriod
    \/ EffectResize
    \/ EffectUpdate
    \/ EffectDraw

SpecEffect == InitEffect /\ [][NextEffect]_vars

\* =================================================================
\* The mascot driven directly: any sequence of setTimePeriod, click,
\* timer expiry and update, with the timer clock
\* =================================================================
\* the mascot, just constructed
InitMascot ==
    /\ InitObjects
    /\ now \in MascotTickSteps
    /\ hidden = FALSE
    /\ call = NoCall

MascotTick ==
    /\ \E d \in MascotTickSteps : now + d <= MaxMascotNow /\ now' = now + d
    /\ call' = [op |-> "tick", on |-> NULL, arg |-> NULL]
    /\ UNCHANGED << hidden, rafQueue, nextHandle, intervals, listeners, dom,
                    frameTime, loaded, renderer, updateInterval, currentState,
                    isRunning, animationId, lastTime, currentTimePeriod,
                    currentPalette, canvas, deltaTime, worked, particles,
                    timeouts, nextTimer, eff, drawn, trace, extraVars, rabbit >>

MascotSetTimePeriod ==
    /\ \E p \in TIME_PERIOD :
          /\ rabbit' = RabbitCharacter_setTimePeriod(rabbit, p)
          /\ call' = [op |-> "setTimePeriod", on |-> "rabbit", arg |-> p]
    /\ UNCHANGED << rendererVars, timeouts, nextTimer, eff, drawn, trace, extraVars >>

\* variant: a click that clears the timers of earlier clicks
MascotClick_cancelsEarlier ==
    /\ Len(rabbit.hearts) + Len(rabbit.angerMarks) < MaxHearts
    /\ now + CLICK_JUMP_DURATION <= MaxMascotNow
    /\ rabbit' = onClick(rabbit)
    /\ nextTimer' = nextTimer + 1
    /\ timeouts' = << [id |-> nextTimer + 1, delay |-> ClickTimeout(rabbit),
                       due |-> now + ClickTimeout(rabbit)] >>
    /\ call' = [op |-> "click", on |-> "rabbit", arg |-> NULL]
    /\ UNCHANGED << rendererVars, eff, drawn, trace, extraVars >>

\* the click listener of the hit area: onClick() and its setTimeout
MascotClick ==
    /\ Len(timeouts) < MaxTimers
    /\ Len(rabbit.hearts) + Len(rabbit.angerMarks) < MaxHearts
    /\ now + CLICK_JUMP_DURATION <= MaxMascotNow
    /\ rabbit' = onClick(rabbit)
    /\ nextTimer' = nextTimer + 1
    /\ timeouts' = Append(timeouts, [id |-> nextTimer + 1,
                                     delay |-> ClickTimeout(rabbit),
                                     due |-> now + ClickTimeout(rabbit)])
    /\ call' = [op |-> "click", on |-> "rabbit", arg |-> NULL]
    /\ UNCHANGED << rendererVars, eff, drawn, trace, extraVars >>

\* the host runs timers that are due, earliest first
Runnable(i) ==
    /\ timeouts[i].due <= now
    /\ \A j \in 1..Len(timeouts) :
          \/ timeouts[j].due > timeouts[i].due
          \/ (timeouts[j].due = timeouts[i].due /\ timeouts[j].id >= timeouts[i].id)

RemoveAt(q, i) == SubSeq(q, 1, i - 1) \o SubSeq(q, i + 1, Len(q))

MascotTimeout ==
    /\ \E i \in 1..Len(timeouts) :
          /\ Runnable(i)
          /\ timeouts' = RemoveAt(timeouts, i)
          /\ call' = [op |-> "timeout", on |-> "rabbit", arg |-> timeouts[i].id]
    /\ rabbit' = clickTimerCallback(rabbit)
    /\ UNCHANGED << rendererVars, nextTimer, eff, drawn, trace, extraVars >>

MascotUpdate ==
    /\ \E dt \in MascotDeltaTimes :
          /\ rabbit.time + dt <= MaxMascotTime
          /\ rabbit' = RabbitCharacter_update(rabbit, dt)
    /\ call' = [op |-> "update", on |-> "rabbit", arg |-> NULL]
    /\ UNCHANGED << rendererVars, timeouts, nextTimer, eff, drawn, trace, extraVars >>

NextMascot ==
    \/ MascotTick
    \/ MascotSetTimePeriod
    \/ MascotClick
    \/ MascotTimeout
    \/ MascotUpdate

SpecMascot == InitMascot /\ [][NextMascot]_vars

\* timers run when they are due and the clock does not stop
SpecMascotFair ==
    SpecMascot /\ WF_vars(MascotTimeout) /\ WF_vars(MascotTick)

\* =================================================================
\* Colors: parsing, formatting and interpolation.  A JavaScript string is
\* the sequence of its characters; a value of another type carries only
\* its typeof.  Numbers with a fractional part are fixed-point integers.
\* =================================================================
Str(chars) == [type |-> "string", chars |-> chars]
NonString(type) == [type |-> type, chars |-> << >>]

\* interpolation factors are k / FactorOne
FactorOne == 5

Digits == << "0", "1", "2", "3", "4", "5", "6", "7", "8", "9" >>
HexLower == Digits \o << "a", "b", "c", "d", "e", "f" >>
HexUpper == Digits \o << "A", "B", "C", "D", "E", "F" >>

IsDigit(c) == \E i \in 1..10 : Digits[i] = c
IsHexDigit(c) == \E i \in 1..16 : HexLower[i] = c \/ HexUpper[i] = c
DigitVal(c) == (CHOOSE i \in 1..10 : Digits[i] = c) - 1
HexVal(c) == (CHOOSE i \in 1..16 : HexLower[i] = c \/ HexUpper[i] = c) - 1

\* HEX_COLOR_REGEX = /^#?([a-f\d]{2})([a-f\d]{2})([a-f\d]{2})$/i: the six
\* hex digits it captures, or << >> when the string does not match
HexColorMatch(chars) ==
    LET body == IF Len(chars) > 0 /\ chars[1] = "#" THEN Tail(chars) ELSE chars
    IN  IF Len(body) = 6 /\ \A i \in 1..6 : IsHexDigit(body[i]) THEN body ELSE << >>

\* parseInt(twoChars, 16)
ParseHexPair(c1, c2) == 16 * HexVal(c1) + HexVal(c2)

Black == [r |-> 0, g |-> 0, b |-> 0]

\* hexToRgb(hex): black for a non-string and for a string the regex rejects
hexToRgb(hex) ==
    IF hex.type # "string" THEN Black
    ELSE LET m == HexColorMatch(hex.chars)
         IN  IF m = << >> THEN Black
             ELSE [r |-> ParseHexPair(m[1], m[2]),
                   g |-> ParseHexPair(m[3], m[4]),
                   b |-> ParseHexPair(m[5], m[6])]

\* hexToRgb(hex) writes a console warning
hexToRgb_warns(hex) ==
    hex.type # "string" \/ HexColorMatch(hex.chars) = << >>

\* Math.round of the non-negative number n / d (halves go up)
Round(n, d) == (2 * n + d) \div (2 * d)

\* Math.max(0, Math.min(255, n / d)), as a numerator over d
Clamp255(n, d) == IF n < 0 THEN 0 ELSE IF n > 255 * d THEN 255 * d ELSE n

\* x.toString(16) padded to two characters, for 0 <= x <= 255
HexByte(x) == << HexLower[(x \div 16) + 1], HexLower[(x % 16) + 1] >>

\* variant: x.toString(16) without the "0" in front of a single digit
HexDigits(x) == IF x < 16 THEN << HexLower[x + 1] >> ELSE HexByte(x)
rgbToHex_unpadded(r, g, b, d) ==
    Str(<< "#" >> \o HexDigits(Round(Clamp255(r, d), d))
               \o HexDigits(Round(Clamp255(g, d), d))
               \o HexDigits(Round(Clamp255(b, d), d)))

\* rgbToHex(r, g, b) of the numbers r / d, g / d, b / d
rgbToHex(r, g, b, d) ==
    Str(<< "#" >> \o HexByte(Round(Clamp255(r, d), d))
               \o HexByte(Round(Clamp255(g, d), d))
               \o HexByte(Round(Clamp255(b, d), d)))

\* interpolateColor(color1, color2, k / FactorOne)
interpolateColor(color1, color2, k) ==
    LET c1 == hexToRgb(color1)
        c2 == hexToRgb(color2)
    IN  rgbToHex(c1.r * FactorOne + (c2.r - c1.r) * k,
                 c1.g * FactorOne + (c2.g - c1.g) * k,
                 c1.b * FactorOne + (c2.b - c1.b) * k, FactorOne)

\* ---- the regular expression of parseRgbaColor -------------------------
At(s, i, c) == i <= Len(s) /\ s[i] = c
IsSpace(c) == c \in {" ", "\t", "\n"}
IsNumChar(c) == IsDigit(c) \/ c = "."

\* the index after the longest run, starting at index `from`, of characters
\* satisfying In: what a greedy \d+, \s* or [\d.]+ consumes
RunEnd(s, from, In(_)) ==
    CHOOSE j \in UNION {{k \in {i} \cup (i..(Len(s) + 1)) :
                            /\ k > Len(s) \/ ~In(s[k])
                            /\ \A m \in i..(k - 1) : In(s[m])} : i \in {from}} : TRUE
SkipDigits(s, i) == RunEnd(s, i, IsDigit)
SkipSpace(s, i) == RunEnd(s, i, IsSpace)
SkipNum(s, i) == RunEnd(s, i, IsNumChar)

NoMatch == [ok |-> FALSE, r |-> << >>, g |-> << >>, b |-> << >>,
            hasAlpha |-> FALSE, a |-> << >>]

\* /rgba?\((\d+),\s*(\d+),\s*(\d+)(?:,\s*([\d.]+))?\)/ tried at index i
RgbaMatchAt(s, i) ==
    LET p1 == i + 3
        p2 == IF At(s, p1, "a") THEN p1 + 1 ELSE p1
        r0 == p2 + 1
        r1 == SkipDigits(s, r0)
        g0 == SkipSpace(s, r1 + 1)
        g1 == SkipDigits(s, g0)
        b0 == SkipSpace(s, g1 + 1)
        b1 == SkipDigits(s, b0)
        a0 == SkipSpace(s, b1 + 1)
        a1 == SkipNum(s, a0)
        head == /\ At(s, i, "r") /\ At(s, i + 1, "g") /\ At(s, i + 2, "b")
                /\ At(s, p2, "(")
                /\ r1 > r0 /\ At(s, r1, ",")
                /\ g1 > g0 /\ At(s, g1, ",")
                /\ b1 > b0
        rgb == [ok |-> TRUE, r |-> SubSeq(s, r0, r1 - 1), g |-> SubSeq(s, g0, g1 - 1),
                b |-> SubSeq(s, b0, b1 - 1), hasAlpha |-> FALSE, a |-> << >>]
    IN  IF ~head THEN NoMatch
        ELSE IF At(s, b1, ",") /\ a1 > a0 /\ At(s, a1, ")")
             THEN [rgb EXCEPT !.hasAlpha = TRUE, !.a = SubSeq(s, a0, a1 - 1)]
        ELSE IF At(s, b1, ")") THEN rgb
        ELSE NoMatch

\* String.prototype.match: the leftmost match
\* the match at the least of the indices `hits` where the pattern matches
LeftmostMatch(s, hits) ==
    IF hits = {} THEN NoMatch
    ELSE RgbaMatchAt(s, CHOOSE j \in hits : \A k \in hits : j <= k)
RgbaMatchFrom(s, i) == LeftmostMatch(s, {j \in i..Len(s) : RgbaMatchAt(s, j).ok})

\* parseInt(digits, 10)
RECURSIVE ParseDec(_)
ParseDec(ds) ==
    IF ds = << >> THEN 0
    ELSE 10 * ParseDec(SubSeq(ds, 1, Len(ds) - 1)) + DigitVal(ds[Len(ds)])

Pow10(n) == IF n = 0 THEN 1 ELSE IF n = 1 THEN 10 ELSE IF n = 2 THEN 100 ELSE 1000

\* a number with a fractional part is n / d; NaN has d = 0
Num(n, d) == [n |-> n, d |-> d]
NaN == Num(0, 0)
RECURSIVE Reduce(_)
Reduce(x) ==
    IF x.d > 1 /\ x.n % 10 = 0 THEN Reduce(Num(x.n \div 10, x.d \div 10)) ELSE x

\* parseFloat of a string of digits and dots: the longest numeric prefix
\* (fraction digits past the third are not kept by this model)
ParseFloat(cs) ==
    LET i1 == SkipDigits(cs, 1)
        f0 == IF At(cs, i1, ".") THEN i1 + 1 ELSE i1
        f1 == IF f0 > i1 THEN SkipDigits(cs, f0) ELSE f0
        f2 == IF f1 - f0 > 3 THEN f0 + 3 ELSE f1
        int == SubSeq(cs, 1, i1 - 1)
        frac == SubSeq(cs, f0, f2 - 1)
    IN  IF int = << >> /\ frac = << >> THEN NaN
        ELSE Reduce(Num(ParseDec(int) * Pow10(Len(frac)) + ParseDec(frac),
                        Pow10(Len(frac))))

OpaqueBlack == [r |-> 0, g |-> 0, b |-> 0, a |-> Num(1, 1)]
TypeError == [throws |-> "TypeError"]

\* { ...rgb, a: 1 }
WithAlphaOne(rgb) == [r |-> rgb.r, g |-> rgb.g, b |-> rgb.b, a |-> Num(1, 1)]

\* what parseRgbaColor returns for the result m of rgba.match(...)
RgbaOfMatch(m) ==
    IF m.ok
    THEN [r |-> ParseDec(m.r), g |-> ParseDec(m.g), b |-> ParseDec(m.b),
          a |-> IF m.hasAlpha THEN ParseFloat(m.a) ELSE Num(1, 1)]
    ELSE OpaqueBlack

\* the part of parseRgbaColor after the type checks
ParseRgbaString(chars) ==
    IF At(chars, 1, "#") THEN WithAlphaOne(hexToRgb(Str(chars)))
    ELSE RgbaOfMatch(RgbaMatchFrom(chars, 1))

\* parseRgbaColor of colors.js: rgba.startsWith is called on the argument as
\* it is, so an argument that is not a string throws a TypeError
parseRgbaColor(rgba) ==
    IF rgba.type # "string" THEN TypeError ELSE ParseRgbaString(rgba.chars)

\* parseRgbaColor of the interpolation utilities: null, undefined, the empty
\* string and non-strings give opaque black without a warning
Utils_parseRgbaColor(rgba) ==
    IF rgba.type # "string" \/ rgba.chars = << >> THEN OpaqueBlack
    ELSE ParseRgbaString(rgba.chars)

\* the part of parseRgbaColor after the type checks writes a console warning
ParseRgbaString_warns(chars) ==
    IF At(chars, 1, "#") THEN hexToRgb_warns(Str(chars))
    ELSE ~RgbaMatchFrom(chars, 1).ok

\* parseRgbaColor of colors.js writes a console warning
parseRgbaColor_warns(rgba) ==
    rgba.type = "string" /\ ParseRgbaString_warns(rgba.chars)

\* parseRgbaColor of the interpolation utilities writes a console warning
Utils_parseRgbaColor_warns(rgba) ==
    /\ rgba.type = "string" /\ rgba.chars # << >>
    /\ ParseRgbaString_warns(rgba.chars)

\* String(n) of a non-negative integer
RECURSIVE IntChars(_)
IntChars(n) ==
    IF n < 10 THEN << Digits[n + 1] >>
    ELSE IntChars(n \div 10) \o << Digits[(n % 10) + 1] >>

\* (n / d).toFixed(2) of a non-negative number
ToFixed2(n, d) ==
    LET h == Round(100 * n, d)
    IN  IntChars(h \div 100) \o << ".", Digits[((h \div 10) % 10) + 1], Digits[(h % 10) + 1] >>

\* the channels of c1 and c2 blended by k / FactorOne, formatted as
\* `rgba(${r}, ${g}, ${b}, ${a.toFixed(2)})`
BlendRgba(c1, c2, k) ==
    LET r == Round(c1.r * FactorOne + (c2.r - c1.r) * k, FactorOne)
        g == Round(c1.g * FactorOne + (c2.g - c1.g) * k, FactorOne)
        b == Round(c1.b * FactorOne + (c2.b - c1.b) * k, FactorOne)
        an == c1.a.n * c2.a.d * FactorOne + (c2.a.n * c1.a.d - c1.a.n * c2.a.d) * k
        ad == c1.a.d * c2.a.d * FactorOne
    IN  Str(<< "r", "g", "b", "a", "(" >> \o IntChars(r) \o << ",", " " >>
            \o IntChars(g) \o << ",", " " >> \o IntChars(b) \o << ",", " " >>
            \o ToFixed2(an, ad) \o << ")" >>)

\* interpolateRgbaColor(color1, color2, k / FactorOne)
interpolateRgbaColor(color1, color2, k) ==
    BlendRgba(parseRgbaColor(color1), parseRgbaColor(color2), k)

\* ---- palettes ----------------------------------------------------------
\* celestial x, y and gradientAngle are in units of 1 / NumOne
NumOne == 100 * FactorOne
\* a literal with two decimal places, given in hundredths
Hundredths(h) == h * FactorOne

\* TIME_PALETTES
TIME_PALETTES(timePeriod) ==
    CASE timePeriod = "MORNING" ->
        [gradient |-> << Str(<< "#", "F", "F", "F", "E", "F", "5" >>),
                        Str(<< "#", "F", "F", "F", "D", "E", "8" >>),
                        Str(<< "#", "F", "F", "F", "B", "D", "5" >>),
                        Str(<< "#", "F", "0", "F", "4", "F", "F" >>) >>,
         bg |-> Str(<< "#", "E", "8", "E", "6", "D", "6" >>),
         cardBg |-> Str(<< "#", "E", "8", "E", "6", "D", "6" >>),
         text |-> Str(<< "#", "3", "A", "3", "A", "3", "5" >>),
         textMuted |-> Str(<< "#", "6", "E", "6", "E", "6", "5" >>),
         accent |-> Str(<< "#", "B", "8", "A", "D", "4", "5" >>),
         celestial |-> [type |-> "sun", x |-> Hundredths(-10), y |-> Hundredths(90),
                        color |-> Str(<< "r", "g", "b", "a", "(", "2", "5", "5", ",", " ", "2", "5", "5", ",", " ", "1", "8", "0", ",", " ", "0", ".", "5", ")" >>),
                        glowColor |-> Str(<< "r", "g", "b", "a", "(", "2", "5", "5", ",", " ", "2", "5", "5", ",", " ", "1", "5", "0", ",", " ", "0", ".", "2", ")" >>)],
         gradientAngle |-> 135 * NumOne]
      [] timePeriod = "NOON" ->
        [gradient |-> << Str(<< "#", "6", "B", "C", "4", "E", "8" >>),
                        Str(<< "#", "8", "7", "C", "E", "E", "B" >>),
                        Str(<< "#", "A", "8", "D", "8", "F", "0" >>),
                        Str(<< "#", "B", "8", "E", "0", "F", "5" >>),
                        Str(<< "#", "D", "0", "E", "C", "F", "A" >>) >>,
         bg |-> Str(<< "#", "E", "8", "E", "E", "F", "3" >>),
         cardBg |-> Str(<< "#", "E", "8", "E", "E", "F", "3" >>),
         text |-> Str(<< "#", "2", "D", "3", "7", "4", "8" >>),
         textMuted |-> Str(<< "#", "7", "1", "8", "0", "9", "6" >>),
         accent |-> Str(<< "#", "4", "A", "6", "F", "A", "5" >>),
         celestial |-> [type |-> "sun", x |-> Hundredths(50), y |-> Hundredths(-20),
                        color |-> Str(<< "r", "g", "b", "a", "(", "2", "5", "5", ",", " ", "2", "5", "2", ",", " ", "2", "3", "0", ",", " ", "0", ".", "3", "5", ")" >>),
                        glowColor |-> Str(<< "r", "g", "b", "a", "(", "2", "5", "5", ",", " ", "2", "4", "8", ",", " ", "2", "2", "0", ",", " ", "0", ".", "1", "8", ")" >>)],
         gradientAngle |-> 180 * NumOne]
      [] timePeriod = "EVENING" ->
        [gradient |-> << Str(<< "#", "E", "8", "C", "4", "A", "8" >>),
                        Str(<< "#", "D", "D", "B", "A", "A", "0" >>),
                        Str(<< "#", "D", "4", "A", "9", "9", "A" >>),
                        Str(<< "#", "C", "9", "A", "0", "A", "0" >>),
                        Str(<< "#", "B", "8", "9", "A", "A", "8" >>) >>,
         bg |-> Str(<< "#", "E", "8", "E", "0", "D", "C" >>),
         cardBg |-> Str(<< "#", "E", "8", "E", "0", "D", "C" >>),
         text |-> Str(<< "#", "4", "A", "4", "0", "4", "0" >>),
         textMuted |-> Str(<< "#", "7", "A", "6", "B", "6", "B" >>),
         accent |-> Str(<< "#", "8", "F", "5", "A", "4", "A" >>),
         celestial |-> [type |-> "sun", x |-> Hundredths(110), y |-> Hundredths(85),
                        color |-> Str(<< "r", "g", "b", "a", "(", "2", "3", "0", ",", " ", "1", "8", "0", ",", " ", "1", "4", "0", ",", " ", "0", ".", "4", ")" >>),
                        glowColor |-> Str(<< "r", "g", "b", "a", "(", "2", "2", "0", ",", " ", "1", "6", "0", ",", " ", "1", "2", "0", ",", " ", "0", ".", "1", "5", ")" >>)],
         gradientAngle |-> 45 * NumOne]
      [] timePeriod = "NIGHT" ->
        [gradient |-> << Str(<< "#", "0", "F", "1", "6", "2", "8" >>),
                        Str(<< "#", "1", "6", "2", "0", "3", "5" >>),
                        Str(<< "#", "1", "A", "2", "5", "4", "0" >>),
                        Str(<< "#", "0", "D", "1", "A", "3", "0" >>) >>,
         bg |-> Str(<< "#", "1", "E", "2", "4", "3", "0" >>),
         cardBg |-> Str(<< "#", "2", "5", "2", "D", "3", "A" >>),
         text |-> Str(<< "#", "E", "0", "E", "5", "E", "C" >>),
         textMuted |-> Str(<< "#", "8", "B", "9", "5", "A", "5" >>),
         accent |-> Str(<< "#", "5", "B", "7", "D", "B", "1" >>),
         celestial |-> [type |-> "moon", x |-> Hundredths(100), y |-> Hundredths(-10),
                        color |-> Str(<< "r", "g", "b", "a", "(", "2", "0", "0", ",", " ", "2", "2", "0", ",", " ", "2", "5", "5", ",", " ", "0", ".", "4", ")" >>),
                        glowColor |-> Str(<< "r", "g", "b", "a", "(", "1", "5", "0", ",", " ", "1", "8", "0", ",", " ", "2", "3", "0", ",", " ", "0", ".", "1", "2", ")" >>)],
         gradientAngle |-> 180 * NumOne]

\* CONFIG.SHADOWS
SHADOWS(timePeriod) ==
    CASE timePeriod = "MORNING" ->
        [light |-> Str(<< "r", "g", "b", "a", "(", "2", "5", "5", ",", " ", "2", "5", "5", ",", " ", "2", "4", "8", ",", " ", "0", ".", "6", ")" >>),
         dark |-> Str(<< "r", "g", "b", "a", "(", "1", "8", "0", ",", " ", "1", "7", "5", ",", " ", "1", "5", "0", ",", " ", "0", ".", "3", "5", ")" >>)]
      [] timePeriod = "NOON" ->
        [light |-> Str(<< "r", "g", "b", "a", "(", "2", "5", "5", ",", " ", "2", "5", "5", ",", " ", "2", "5", "5", ",", " ", "0", ".", "6", "5", ")" >>),
         dark |-> Str(<< "r", "g", "b", "a", "(", "1", "6", "0", ",", " ", "1", "7", "5", ",", " ", "1", "9", "0", ",", " ", "0", ".", "3", "5", ")" >>)]
      [] timePeriod = "EVENING" ->
        [light |-> Str(<< "r", "g", "b", "a", "(", "2", "5", "5", ",", " ", "2", "2", "0", ",", " ", "2", "0", "0", ",", " ", "0", ".", "5", ")" >>),
         dark |-> Str(<< "r", "g", "b", "a", "(", "1", "4", "0", ",", " ", "1", "0", "0", ",", " ", "8", "0", ",", " ", "0", ".", "4", ")" >>)]
      [] timePeriod = "NIGHT" ->
        [light |-> Str(<< "r", "g", "b", "a", "(", "6", "0", ",", " ", "8", "0", ",", " ", "1", "2", "0", ",", " ", "0", ".", "4", ")" >>),
         dark |-> Str(<< "r", "g", "b", "a", "(", "1", "0", ",", " ", "2", "0", ",", " ", "4", "0", ",", " ", "0", ".", "6", ")" >>)]

\* from + (to - from) * k / FactorOne, for fixed-point numbers
Lerp(from, to, k) == from + ((to - from) * k) \div FactorOne

\* the palette before blending: { ...TIME_PALETTES[timePeriod], timePeriod }
\* with the else branch of the shadows block
StaticPalette(timePeriod) ==
    LET t == TIME_PALETTES(timePeriod)
    IN  [timePeriod |-> timePeriod, gradient |-> t.gradient, bg |-> t.bg,
         cardBg |-> t.cardBg, text |-> t.text, textMuted |-> t.textMuted,
         accent |-> t.accent, celestial |-> t.celestial,
         gradientAngle |-> t.gradientAngle, shadows |-> SHADOWS(timePeriod)]

\* variant: at factor 1 the colours still go through interpolateColor
getColorPalette_blendsAtOne(timePeriod, k, previousTimePeriod) ==
    LET to == StaticPalette(timePeriod)
    IN  IF previousTimePeriod # NULL /\ k > 0
        THEN LET from == StaticPalette(previousTimePeriod)
             IN  [to EXCEPT !.bg = interpolateColor(from.bg, to.bg, k)]
        ELSE to

\* getColorPalette(timePeriod, transitionFactor = k / FactorOne,
\* previousTimePeriod): both blending branches are guarded by
\* previousTimePeriod && transitionFactor > 0 && transitionFactor < 1
getColorPalette(timePeriod, k, previousTimePeriod) ==
    LET to == StaticPalette(timePeriod)
    IN  IF previousTimePeriod # NULL /\ k > 0 /\ k < FactorOne
        THEN LET from == StaticPalette(previousTimePeriod)
                 n == Len(from.gradient)
             IN  [timePeriod |-> timePeriod,
                  gradient |-> [i \in 1..Len(to.gradient) |->
                      interpolateColor(from.gradient[((i - 1) % n) + 1],
                                       to.gradient[i], k)],
                  bg |-> interpolateColor(from.bg, to.bg, k),
                  cardBg |-> interpolateColor(from.cardBg, to.cardBg, k),
                  text |-> interpolateColor(from.text, to.text, k),
                  textMuted |-> interpolateColor(from.textMuted, to.textMuted, k),
                  accent |-> interpolateColor(from.accent, to.accent, k),
                  shadows |->
                      [light |-> interpolateRgbaColor(from.shadows.light, to.shadows.light, k),
                       dark |-> interpolateRgbaColor(from.shadows.dark, to.shadows.dark, k)],
                  gradientAngle |-> Lerp(from.gradientAngle, to.gradientAngle, k),
                  celestial |->
                      [type |-> to.celestial.type,
                       x |-> Lerp(from.celestial.x, to.celestial.x, k),
                       y |-> Lerp(from.celestial.y, to.celestial.y, k),
                       color |-> interpolateRgbaColor(from.celestial.color,
                                                      to.celestial.color, k),
                       glowColor |-> interpolateRgbaColor(from.celestial.glowColor,
                                                          to.celestial.glowColor, k)]]
        ELSE to

\* =================================================================
\* Time: the period classifier and the transition between periods.
\* A time of day is (hour, minutes); distances are in minutes.
\* =================================================================
\* CONFIG.TIME_PERIODS
TIME_PERIODS(p) ==
    CASE p = "MORNING" -> [start |-> 5, end |-> 11]
      [] p = "NOON"    -> [start |-> 11, end |-> 17]
      [] p = "EVENING" -> [start |-> 17, end |-> 20]
      [] p = "NIGHT"   -> [start |-> 20, end |-> 5]

\* variant: the end hour of a range belongs to the range
getTimePeriod_inclusiveEnd(hour) ==
    IF hour >= TIME_PERIODS("MORNING").start /\ hour <= TIME_PERIODS("MORNING").end
    THEN "MORNING"
    ELSE IF hour >= TIME_PERIODS("NOON").start /\ hour <= TIME_PERIODS("NOON").end
    THEN "NOON"
    ELSE IF hour >= TIME_PERIODS("EVENING").start /\ hour <= TIME_PERIODS("EVENING").end
    THEN "EVENING"
    ELSE "NIGHT"

\* getTimePeriod() with hour = new Date().getHours()
getTimePeriod(hour) ==
    IF hour >= TIME_PERIODS("MORNING").start /\ hour < TIME_PERIODS("MORNING").end
    THEN "MORNING"
    ELSE IF hour >= TIME_PERIODS("NOON").start /\ hour < TIME_PERIODS("NOON").end
    THEN "NOON"
    ELSE IF hour >= TIME_PERIODS("EVENING").start /\ hour < TIME_PERIODS("EVENING").end
    THEN "EVENING"
    ELSE "NIGHT"

\* const transitionWindow = 0.5, in minutes
TransitionWindow == 30

\* the eased factor is a numerator over EaseOne = 2 * (2 * TransitionWindow)^3
EaseOne == 2 * (2 * TransitionWindow) * (2 * TransitionWindow) * (2 * TransitionWindow)

Cube(x) == x * x * x

\* variant: the first branch of the easing for every t
easeInOutCubic_firstBranchOnly(n, d) == 8 * Cube(n)

\* easeInOutCubic(t) for t = n / d, as a numerator over 2 * d^3:
\* t < 0.5 ? 4 * t * t * t : 1 - Math.pow(-2 * t + 2, 3) / 2
easeInOutCubic(n, d) ==
    IF 2 * n < d THEN 8 * Cube(n) ELSE 2 * Cube(d) - Cube(2 * d - 2 * n)

\* the transitions array
Transitions ==
    << [boundary |-> TIME_PERIODS("MORNING").start, from |-> "NIGHT", to |-> "MORNING"],
       [boundary |-> TIME_PERIODS("NOON").start, from |-> "MORNING", to |-> "NOON"],
       [boundary |-> TIME_PERIODS("EVENING").start, from |-> "NOON", to |-> "EVENING"],
       [boundary |-> TIME_PERIODS("NIGHT").start, from |-> "EVENING", to |-> "NIGHT"] >>

Abs(x) == IF x < 0 THEN -x ELSE x

\* distance of the time (in minutes of the day) from a boundary, with the
\* day wrap: if (boundary < 6 && currentTime > 20) distance = currentTime - (boundary + 24)
Distance(currentMinutes, boundary) ==
    IF boundary < 6 /\ currentMinutes > 20 * 60
    THEN currentMinutes - 60 * (boundary + 24)
    ELSE currentMinutes - 60 * boundary

\* factor = (distance + transitionWindow) / (transitionWindow * 2), clamped
\* to [0, 1] and eased
EasedFactor(distance) ==
    LET n == distance + TransitionWindow
        d == 2 * TransitionWindow
        clamped == IF n < 0 THEN 0 ELSE IF n > d THEN d ELSE n
    IN  easeInOutCubic(clamped, d)

\* variant: the window excludes its edges
getTimeTransition_openWindow(hour, minutes) ==
    LET cm == 60 * hour + minutes
        hits == {i \in 1..Len(Transitions) :
                    Abs(Distance(cm, Transitions[i].boundary)) < TransitionWindow}
    IN  IF hits = {}
        THEN [from |-> getTimePeriod(hour), to |-> getTimePeriod(hour), factor |-> EaseOne]
        ELSE LET i == CHOOSE j \in hits : \A l \in hits : j <= l
             IN  [from |-> Transitions[i].from, to |-> Transitions[i].to,
                  factor |-> EasedFactor(Distance(cm, Transitions[i].boundary))]

\* getTimeTransition() at hour:minutes: the first transition of the array
\* whose boundary is within the window, else the stationary transition
getTimeTransition(hour, minutes) ==
    LET cm == 60 * hour + minutes
        hits == {i \in 1..Len(Transitions) :
                    Abs(Distance(cm, Transitions[i].boundary)) <= TransitionWindow}
    IN  IF hits = {}
        THEN [from |-> getTimePeriod(hour), to |-> getTimePeriod(hour), factor |-> EaseOne]
        ELSE LET i == CHOOSE j \in hits : \A l \in hits : j <= l
             IN  [from |-> Transitions[i].from, to |-> Transitions[i].to,
                  factor |-> EasedFactor(Distance(cm, Transitions[i].boundary))]

\* =================================================================
\* The pure functions called directly: an argument is drawn, the
\* function is applied to it, and `call` holds the argument and the result
\* =================================================================
Args(fn, in) == [op |-> "args", on |-> fn, arg |-> [in |-> in, out |-> NULL]]
Return(fn, in, out) == [op |-> "return", on |-> fn, arg |-> [in |-> in, out |-> out]]

\* (timePeriod, transitionFactor, previousTimePeriod) of getColorPalette
PaletteArgs ==
    [timePeriod : TIME_PERIOD, k : 0..FactorOne, previous : TIME_PERIOD \cup {NULL}]

\* new Date().getHours(), and (getHours(), getMinutes())
Hours == 0..23
TimesOfDay == [hour : Hours, minutes : 0..59]

\* Arguments of the colour parsers.  Short strings over a few characters
\* (all malformed), six-digit hex strings with and without "#", an invalid
\* digit among them, rgb()/rgba() strings with and without alpha, spaces and
\* closing parenthesis, and values that are not strings.
MaxStrLen == 3
ShortChars == {"#", "1", "a", "g"}
ShortStrings == UNION {[1..n -> ShortChars] : n \in 0..MaxStrLen}
HexPairs ==
    {<< "0", "0" >>, << "f", "f" >>, << "A", "0" >>, << "g", "0" >>, << "4", "A" >>,
     << "0", "c" >>}
HexStrings ==
    {h \o p1 \o p2 \o p3 : h \in {<< >>, << "#" >>}, p1 \in HexPairs,
                           p2 \in HexPairs, p3 \in HexPairs}
RgbaStrings ==
    {fn \o << "(" >> \o r \o sep \o << "0" >> \o sep \o << "9" >> \o a \o close :
        fn \in {<< "r", "g", "b" >>, << "r", "g", "b", "a" >>},
        r \in {<< "1" >>, << "2", "5" >>},
        sep \in {<< "," >>, << ",", " " >>},
        a \in {<< >>, << ",", "1" >>, << ",", " ", "0", ".", "5" >>, << ",", "." >>,
               << "," >>},
        close \in {<< ")" >>, << >>}}
NonStrings == {NonString(t) : t \in {"undefined", "object", "number"}}
ColorInputs ==
    {Str(cs) : cs \in ShortStrings \cup HexStrings \cup RgbaStrings} \cup NonStrings

\* Arguments of rgbToHex: channels in halves, below 0, inside [0, 255] with
\* and without a fractional part, and above 255; `from` is the string the
\* channels were parsed from, when they come from hexToRgb
ChannelDenominator == 2
ChannelValues == {-3, 0, 1, 31, 509, 510, 511, 600}
NotParsed == NonString("undefined")
RgbInputs ==
    [r : ChannelValues, g : ChannelValues, b : ChannelValues,
     d : {ChannelDenominator}, from : {NotParsed}]

\* what a call of a colour parser gives back: a value or a thrown error, and
\* whether console.warn was called
Outcome(value, warns) == [value |-> value, warns |-> warns]

\* the minute after t
MinuteAfter(t) ==
    IF t.minutes < 59 THEN [t EXCEPT !.minutes = t.minutes + 1]
    ELSE [hour |-> (t.hour + 1) % 24, minutes |-> 0]

\* updateConditions() of the controller reads the clock twice: new Date() in
\* getTimePeriod(), then new Date() in getTimeTransition(); the second read
\* is in the same minute or in the next
ClockReads ==
    UNION {{[first |-> t, second |-> u] : u \in {t, MinuteAfter(t)}} :
              t \in TimesOfDay}

InitFunctions ==
    /\ InitObjects
    /\ now = LoadTime
    /\ hidden = FALSE
    /\ \/ \E in \in PaletteArgs : call = Args("getColorPalette", in)
       \/ \E in \in Hours : call = Args("getTimePeriod", in)
       \/ \E in \in TimesOfDay : call = Args("getTimeTransition", in)
       \/ \E in \in ColorInputs :
             \E fn \in {"hexToRgb", "parseRgbaColor", "Utils_parseRgbaColor"} :
                call = Args(fn, in)
       \/ \E in \in RgbInputs : call = Args("rgbToHex", in)
       \/ \E in \in ClockReads : call = Args("updateConditions", in)

\* the eased factor (over EaseOne) as a factor over FactorOne, strictly
\* between 0 and 1 when the eased factor is
PaletteFactor(factor) ==
    IF factor = 0 THEN 0
    ELSE IF factor >= EaseOne THEN FactorOne
    ELSE LET k == (factor * FactorOne) \div EaseOne
         IN  IF k < 1 THEN 1 ELSE k

\* variant: the palette is built for the classified period
Controller_updateConditions_ofPeriod(first, second) ==
    LET timePeriod == getTimePeriod(first.hour)
    IN  [timePeriod |-> timePeriod,
         palette |-> getColorPalette(timePeriod, FactorOne, NULL)]

\* updateConditions() of the controller with its two clock reads: the
\* (timePeriod, palette) it stores in currentState and passes to
\* renderer.updateConditions()
Controller_updateConditions(first, second) ==
    LET timePeriod == getTimePeriod(first.hour)
        timeTransition == getTimeTransition(second.hour, second.minutes)
    IN  [timePeriod |-> timePeriod,
         palette |-> getColorPalette(
                        timeTransition.to,
                        PaletteFactor(timeTransition.factor),
                        IF timeTransition.from # timeTransition.to
                        THEN timeTransition.from ELSE NULL)]

Apply(fn, out) ==
    /\ call.op = "args" /\ call.on = fn
    /\ call' = Return(fn, call.arg.in, out)
    /\ UNCHANGED << rendererVars, timeouts, nextTimer, eff, drawn, trace, extraVars, rabbit >>

CallGetColorPalette ==
    /\ call.on = "getColorPalette"
    /\ Apply("getColorPalette",
             getColorPalette(call.arg.in.timePeriod, call.arg.in.k, call.arg.in.previous))

CallGetTimePeriod ==
    /\ call.on = "getTimePeriod"
    /\ Apply("getTimePeriod", getTimePeriod(call.arg.in))

CallGetTimeTransition ==
    /\ call.on = "getTimeTransition"
    /\ Apply("getTimeTransition", getTimeTransition(call.arg.in.hour, call.arg.in.minutes))

CallHexToRgb ==
    /\ call.on = "hexToRgb"
    /\ Apply("hexToRgb", Outcome(hexToRgb(call.arg.in), hexToRgb_warns(call.arg.in)))

\* parseRgbaColor of colors.js
CallParseRgbaColor ==
    /\ call.on = "parseRgbaColor"
    /\ Apply("parseRgbaColor",
             Outcome(parseRgbaColor(call.arg.in), parseRgbaColor_warns(call.arg.in)))

\* parseRgbaColor of the interpolation utilities
CallUtilsParseRgbaColor ==
    /\ call.on = "Utils_parseRgbaColor"
    /\ Apply("Utils_parseRgbaColor",
             Outcome(Utils_parseRgbaColor(call.arg.in),
                     Utils_parseRgbaColor_warns(call.arg.in)))

CallRgbToHex ==
    /\ call.on = "rgbToHex"
    /\ Apply("rgbToHex",
             rgbToHex(call.arg.in.r, call.arg.in.g, call.arg.in.b, call.arg.in.d))

\* rgbToHex(hexToRgb(c)): the channels hexToRgb returned for a string go to
\* rgbToHex
PassRgbToRgbToHex ==
    /\ call.op = "return" /\ call.on = "hexToRgb"
    /\ call.arg.in.type = "string"
    /\ call' = Args("rgbToHex",
                    [r |-> call.arg.out.value.r, g |-> call.arg.out.value.g,
                     b |-> call.arg.out.value.b, d |-> 1, from |-> call.arg.in])
    /\ UNCHANGED << rendererVars, timeouts, nextTimer, eff, drawn, trace, extraVars, rabbit >>

CallUpdateConditions ==
    /\ call.on = "updateConditions"
    /\ Apply("updateConditions",
             Controller_updateConditions(call.arg.in.first, call.arg.in.second))

NextFunctions ==
    \/ CallGetColorPalette
    \/ CallGetTimePeriod
    \/ CallGetTimeTransition
    \/ CallHexToRgb
    \/ CallParseRgbaColor
    \/ CallUtilsParseRgbaColor
    \/ CallRgbToHex
    \/ PassRgbToRgbToHex
    \/ CallUpdateConditions

SpecFunctions == InitFunctions /\ [][NextFunctions]_vars

\* =================================================================
\* The particle system driven directly: any sequence of init, update and
\* resize calls, the window taking a size before each resize
\* =================================================================
restVars == << now, hidden, rafQueue, nextHandle, intervals, listeners, dom,
               timeouts, nextTimer, frameTime, loaded, renderer, updateInterval,
               currentState, isRunning, animationId, lastTime, currentTimePeriod,
               currentPalette, canvas, deltaTime, worked, eff, drawn, trace, extraVars, rabbit >>

\* a particle system, just constructed in a window of some size
InitParticles ==
    /\ rafQueue = {} /\ nextHandle = 0 /\ intervals = {} /\ listeners = {}
    /\ dom = {} /\ timeouts = << >> /\ nextTimer = 0 /\ frameTime = 0
    /\ loaded = FALSE /\ renderer = NULL /\ updateInterval = NoHandle
    /\ currentState = NULL /\ isRunning = FALSE /\ animationId = NoHandle
    /\ lastTime = 0 /\ currentTimePeriod = NULL /\ currentPalette = NULL
    /\ canvas = NULL /\ deltaTime = 0 /\ worked = FALSE
    /\ eff = [e \in EffectNames |-> BaseEffect_constructor]
    /\ drawn = {} /\ trace = << >> /\ rabbit = RabbitCharacter_constructor
    /\ InitExtra
    /\ now = LoadTime
    /\ hidden = FALSE
    /\ \E win \in WindowSizes :
          /\ particles = ParticleSystem_constructor(win)
          /\ call = [op |-> "new", on |-> "particleSystem", arg |-> win]

ParticlesInit ==
    /\ particles.orbs < MaxGen
    /\ \E p \in TIME_PERIOD :
          /\ particles' = ParticleSystem_init(particles, p)
          /\ call' = [op |-> "init", on |-> "particleSystem", arg |-> p]
    /\ UNCHANGED restVars

ParticlesUpdate ==
    /\ \E dt \in DeltaTimes :
          /\ particles.age + dt <= MaxEffTime
          /\ particles' = ParticleSystem_update(particles, dt)
          /\ call' = [op |-> "update", on |-> "particleSystem", arg |-> dt]
    /\ UNCHANGED restVars

ParticlesResize ==
    /\ \E win \in WindowSizes :
          /\ particles' = ParticleSystem_resize(particles, win)
          /\ call' = [op |-> "resize", on |-> "particleSystem", arg |-> win]
    /\ UNCHANGED restVars

NextParticles ==
    \/ ParticlesInit
    \/ ParticlesUpdate
    \/ ParticlesResize

SpecParticles == InitParticles /\ [][NextParticles]_vars

\* =================================================================
\* The profile card: the language module (currentLang and the "lang"
\* item of localStorage) and the flip module (the card's click listener,
\* the hint animation and its blocking flag).  The page can be reloaded;
\* localStorage is what survives a reload.
\* =================================================================
MaxProfileNow == 1200
ProfileTickSteps == {300}
FADE_IN_DELAY == 300
FLIP_DURATION == 600

Languages == {"en", "ja"}
\* what the "lang" item can hold when the page loads: nothing, a value this
\* module wrote, the empty string, or a value written by other code of the
\* same origin
StoredValues == {NULL, "en", "ja", "", "fr"}
Storages == [readable : BOOLEAN, writable : BOOLEAN, lang : StoredValues]

\* getStoredLang(): null when localStorage throws
getStoredLang(ls) == IF ls.readable THEN ls.lang ELSE NULL

\* setStoredLang(lang): a throwing localStorage is ignored
setStoredLang(ls, lang) == IF ls.writable THEN [ls EXCEPT !.lang = lang] ELSE ls

\* let currentLang = getStoredLang() || "en"
OrEn(v) == IF v = NULL \/ v = "" THEN "en" ELSE v
LoadLang(ls) == OrEn(getStoredLang(ls))

\* currentLang === "en" ? "ja" : "en"
toggleLang(lang) == IF lang = "en" THEN "ja" ELSE "en"

LangToggleClick == "lang-toggle.click"
CardClick == "card.click"
CardAnimationEnd == "card.animationend"
ClickTargets == {"card", "a, button"}

profileRest == << hidden, rafQueue, nextHandle, intervals, dom, frameTime, loaded,
                 renderer, updateInterval, currentState, isRunning, animationId,
                 lastTime, currentTimePeriod, currentPalette, canvas, deltaTime,
                 worked, particles, eff, drawn, trace, rabbit, orphans >>

\* the page just loaded: the modules are evaluated, loadContent() has not run
InitProfile ==
    /\ rafQueue = {} /\ nextHandle = 0 /\ intervals = {} /\ listeners = {}
    /\ dom = {} /\ timeouts = << >> /\ nextTimer = 0 /\ frameTime = 0
    /\ loaded = FALSE /\ renderer = NULL /\ updateInterval = NoHandle
    /\ currentState = NULL /\ isRunning = FALSE /\ animationId = NoHandle
    /\ lastTime = 0 /\ currentTimePeriod = NULL /\ currentPalette = NULL
    /\ canvas = NULL /\ deltaTime = 0 /\ worked = FALSE
    /\ particles = ParticleSystem_constructor(LoadWindow)
    /\ eff = [e \in EffectNames |-> BaseEffect_constructor]
    /\ drawn = {} /\ trace = << >> /\ rabbit = RabbitCharacter_constructor
    /\ orphans = << >>
    /\ now = 0
    /\ hidden = FALSE
    /\ localStorage \in Storages
    /\ currentLang = LoadLang(localStorage)
    /\ isHintAnimating = FALSE
    /\ cardClasses = {}
    /\ content = "none"
    /\ call = NoCall

ProfileTick ==
    /\ \E d \in ProfileTickSteps : now + d <= MaxProfileNow /\ now' = now + d
    /\ call' = [op |-> "tick", on |-> NULL, arg |-> NULL]
    /\ UNCHANGED << profileRest, listeners, timeouts, nextTimer, localStorage,
                    currentLang, isHintAnimating, cardClasses, content >>

\* variant: the flag is cleared by the timer that adds the hint class
showFlipHint_timer_clearsFlag(fn) ==
    IF fn = "hint"
    THEN /\ cardClasses' = cardClasses \cup {"hint"}
         /\ listeners' = listeners \cup {CardAnimationEnd}
         /\ isHintAnimating' = FALSE
    ELSE /\ cardClasses' = cardClasses \ {"flipping"}
         /\ UNCHANGED << listeners, isHintAnimating >>

\* the two setTimeout callbacks of the flip module: the one of showFlipHint
\* adds the hint class and registers the once-listener; the one of the click
\* listener removes the flipping class
showFlipHint_timer(fn) ==
    IF fn = "hint"
    THEN /\ cardClasses' = cardClasses \cup {"hint"}
         /\ listeners' = listeners \cup {CardAnimationEnd}
         /\ UNCHANGED isHintAnimating
    ELSE /\ cardClasses' = cardClasses \ {"flipping"}
         /\ UNCHANGED << listeners, isHintAnimating >>

\* loadContent(): loadProfileData(), render(), setupLanguageToggle(),
\* setupFlipToggle(card) and, in it, showFlipHint(card).  A failed fetch and
\* a render() that throws (the profile has no text for currentLang) end in
\* the catch block, before any listener is registered.
loadContent ==
    /\ content = "none"
    /\ \E fetched \in BOOLEAN :
          IF fetched /\ currentLang \in Languages
          THEN /\ content' = "profile"
               /\ listeners' = listeners \cup {LangToggleClick, CardClick}
               /\ isHintAnimating' = TRUE
               /\ nextTimer' = nextTimer + 1
               /\ timeouts' = Append(timeouts, [id |-> nextTimer + 1, fn |-> "hint",
                                                delay |-> FADE_IN_DELAY,
                                                due |-> now + FADE_IN_DELAY])
               /\ call' = [op |-> "loadContent", on |-> "profile", arg |-> "ok"]
          ELSE /\ content' = "error"
               /\ call' = [op |-> "loadContent", on |-> "profile",
                           arg |-> IF fetched THEN "TypeError" ELSE "fetch"]
               /\ UNCHANGED << listeners, isHintAnimating, nextTimer, timeouts >>
    /\ UNCHANGED << profileRest, now, localStorage, currentLang, cardClasses >>

\* handleToggle: stopPropagation(), toggleLang(), render()
LangToggleClicked ==
    /\ LangToggleClick \in listeners
    /\ currentLang' = toggleLang(currentLang)
    /\ localStorage' = setStoredLang(localStorage, toggleLang(currentLang))
    /\ call' = [op |-> "click", on |-> "lang-toggle", arg |-> NULL]
    /\ UNCHANGED << profileRest, now, listeners, timeouts, nextTimer,
                    isHintAnimating, cardClasses, content >>

\* variant: the click listener without the isHintAnimating test
CardClicked_unblocked(target) ==
    IF target = "a, button"
    THEN UNCHANGED << cardClasses, timeouts, nextTimer >>
    ELSE /\ Len(timeouts) < MaxTimers
         /\ cardClasses' = IF "flipped" \in cardClasses
                           THEN (cardClasses \ {"flipped"}) \cup {"flipping"}
                           ELSE cardClasses \cup {"flipped", "flipping"}
         /\ nextTimer' = nextTimer + 1
         /\ timeouts' = Append(timeouts, [id |-> nextTimer + 1, fn |-> "unflip",
                                          delay |-> FLIP_DURATION,
                                          due |-> now + FLIP_DURATION])

\* the click listener of the card, for a click whose target is the card
\* itself or is inside a link or button of the card
CardClicked(target) ==
    IF target = "a, button" \/ isHintAnimating
    THEN UNCHANGED << cardClasses, timeouts, nextTimer >>
    ELSE /\ Len(timeouts) < MaxTimers
         /\ cardClasses' = IF "flipped" \in cardClasses
                           THEN (cardClasses \ {"flipped"}) \cup {"flipping"}
                           ELSE cardClasses \cup {"flipped", "flipping"}
         /\ nextTimer' = nextTimer + 1
         /\ timeouts' = Append(timeouts, [id |-> nextTimer + 1, fn |-> "unflip",
                                          delay |-> FLIP_DURATION,
                                          due |-> now + FLIP_DURATION])

CardClickEvent ==
    /\ CardClick \in listeners
    /\ \E target \in ClickTargets :
          /\ CardClicked(target)
          /\ call' = [op |-> "click", on |-> target, arg |-> NULL]
    /\ UNCHANGED << profileRest, now, listeners, localStorage, currentLang,
                    isHintAnimating, content >>

\* the host runs a due timer of the flip module, earliest first
ProfileTimeout ==
    /\ \E i \in 1..Len(timeouts) :
          /\ Runnable(i)
          /\ timeouts' = RemoveAt(timeouts, i)
          /\ showFlipHint_timer(timeouts[i].fn)
          /\ call' = [op |-> "timeout", on |-> timeouts[i].fn, arg |-> timeouts[i].id]
    /\ UNCHANGED << profileRest, now, nextTimer, localStorage, currentLang, content >>

\* an animationend event reaches the card: the end of the hint animation, or
\* of another animation of the card or of an element inside it.  The
\* once-listener, when registered, removes the hint class and clears the flag.
AnimationEnd ==
    /\ content = "profile"
    /\ \E name \in {"hint", "other"} :
          /\ name = "hint" => "hint" \in cardClasses
          /\ call' = [op |-> "animationend", on |-> "card", arg |-> name]
    /\ IF CardAnimationEnd \in listeners
       THEN /\ cardClasses' = cardClasses \ {"hint"}
            /\ isHintAnimating' = FALSE
            /\ listeners' = listeners \ {CardAnimationEnd}
       ELSE UNCHANGED << cardClasses, isHintAnimating, listeners >>
    /\ UNCHANGED << profileRest, now, timeouts, nextTimer, localStorage,
                    currentLang, content >>

\* the visitor reloads the page: every module is evaluated again,
\* localStorage is kept
Reload ==
    /\ now' = 0
    /\ listeners' = {} /\ timeouts' = << >> /\ nextTimer' = 0
    /\ currentLang' = LoadLang(localStorage)
    /\ isHintAnimating' = FALSE
    /\ cardClasses' = {}
    /\ content' = "none"
    /\ call' = [op |-> "reload", on |-> NULL, arg |-> NULL]
    /\ UNCHANGED << profileRest, localStorage >>

NextProfile ==
    \/ ProfileTick
    \/ loadContent
    \/ LangToggleClicked
    \/ CardClickEvent
    \/ ProfileTimeout
    \/ AnimationEnd
    \/ Reload

SpecProfile == InitProfile /\ [][NextProfile]_vars

\* =================================================================
\* The mascot's hearts and anger marks over their whole life: clicks by
\* day and by night, update(deltaTime) with the frame's deltaTime (the
\* clock advances by it), and the click timers.
\* =================================================================
MaxHeartTime == 2000
HeartDeltaTimes == {0, 300, 400}
ANGER_DURATION == Times08(HEART_DURATION)

InitHearts ==
    /\ InitObjects
    /\ now = 0
    /\ hidden = FALSE
    /\ call = NoCall

HeartsSetTimePeriod ==
    /\ \E p \in {"NOON", "NIGHT"} :
          /\ p # rabbit.timePeriod
          /\ rabbit' = RabbitCharacter_setTimePeriod(rabbit, p)
          /\ call' = [op |-> "setTimePeriod", on |-> "rabbit", arg |-> p]
    /\ UNCHANGED << rendererVars, timeouts, nextTimer, eff, drawn, trace, extraVars >>

\* the click listener of the hit area; the clock leaves room for the entry
\* to live out its duration
HeartsClick ==
    /\ Len(timeouts) < MaxTimers
    /\ Len(rabbit.hearts) + Len(rabbit.angerMarks) < MaxHearts
    /\ rabbit.time + HEART_DURATION + MAX_DELTA * 4 <= MaxHeartTime
    /\ rabbit' = onClick(rabbit)
    /\ nextTimer' = nextTimer + 1
    /\ timeouts' = Append(timeouts, [id |-> nextTimer + 1,
                                     delay |-> ClickTimeout(rabbit),
                                     due |-> now + ClickTimeout(rabbit)])
    /\ call' = [op |-> "click", on |-> "rabbit", arg |-> NULL]
    /\ UNCHANGED << rendererVars, eff, drawn, trace, extraVars >>

HeartsTimeout ==
    /\ \E i \in 1..Len(timeouts) :
          /\ Runnable(i)
          /\ timeouts' = RemoveAt(timeouts, i)
          /\ call' = [op |-> "timeout", on |-> "rabbit", arg |-> timeouts[i].id]
    /\ rabbit' = clickTimerCallback(rabbit)
    /\ UNCHANGED << rendererVars, nextTimer, eff, drawn, trace, extraVars >>

\* a frame: the clock has advanced by dt and update(dt) runs
HeartsFrame(dt) ==
    /\ rabbit.time + dt <= MaxHeartTime
    /\ now' = now + dt
    /\ rabbit' = RabbitCharacter_update(rabbit, dt)
    /\ call' = [op |-> "update", on |-> "rabbit", arg |-> dt]
    /\ UNCHANGED << hidden, rafQueue, nextHandle, intervals, listeners, dom,
                    frameTime, loaded, renderer, updateInterval, currentState,
                    isRunning, animationId, lastTime, currentTimePeriod,
                    currentPalette, canvas, deltaTime, worked, particles,
                    timeouts, nextTimer, eff, drawn, trace, extraVars >>

HeartsUpdate == \E dt \in HeartDeltaTimes : HeartsFrame(dt)

NextHearts ==
    \/ HeartsSetTimePeriod
    \/ HeartsClick
    \/ HeartsTimeout
    \/ HeartsUpdate

SpecHearts == InitHearts /\ [][NextHearts]_vars

\* frames keep running: the host's frame timestamps increase, so frames with
\* a positive deltaTime keep coming
SpecHeartsFair ==
    SpecHearts /\ WF_vars(\E dt \in HeartDeltaTimes \ {0} : HeartsFrame(dt))

\* =================================================================
\* The page when initBackground() is called again (SpecReinit)
\* =================================================================
\* renderers constructed in one behaviour
MaxRenderers == 3

\* the session stays within one period of the day
ReinitPeriods == {"NOON"}

profileVars == << localStorage, currentLang, isHintAnimating, cardClasses, content >>

\* variant: the earlier renderer is destroyed when the handle is overwritten
Orphaned_destroyed ==
    [isRunning |-> FALSE, animationId |-> NoHandle, lastTime |-> lastTime,
     listening |-> FALSE]

\* the renderer the module-level variable referred to, once initBackground()
\* has assigned a new one: nothing of it is stopped or unregistered
Orphaned ==
    [isRunning |-> isRunning, animationId |-> animationId, lastTime |-> lastTime,
     listening |-> RendererListeners \subseteq listeners]

\* the pending frame callbacks of the earlier renderers
OrphanHandles == {orphans[i].animationId : i \in 1..Len(orphans)} \ {NoHandle}

OrphanLoop(o, q, n) ==
    [isRunning |-> o.isRunning, animationId |-> o.animationId,
     lastTime |-> o.lastTime, rafQueue |-> q, nextHandle |-> n]

WithLoop(o, L) ==
    [o EXCEPT !.isRunning = L.isRunning, !.animationId = L.animationId,
              !.lastTime = L.lastTime]

\* the visibilitychange listeners of the earlier renderers, in the order they
\* were registered, on the host's queue q and handle counter n
RECURSIVE OrphansVisibility(_, _, _, _, _)
OrphansVisibility(os, q, n, hid, t) ==
    IF os = << >> THEN [orphans |-> << >>, rafQueue |-> q, nextHandle |-> n]
    ELSE LET L == IF Head(os).listening
                  THEN handleVisibility(OrphanLoop(Head(os), q, n), hid, t)
                  ELSE OrphanLoop(Head(os), q, n)
             rest == OrphansVisibility(Tail(os), L.rafQueue, L.nextHandle, hid, t)
         IN  [rest EXCEPT !.orphans = << WithLoop(Head(os), L) >> \o rest.orphans]

InitReinit == Init

\* initBackground(): the automatic call when the script loads, and any later
\* call by the page
ReinitBackground ==
    /\ nextTimer < MaxRenderers
    /\ nextHandle < MaxHandle
    /\ constructBackground(ReinitPeriods)
    /\ orphans' = IF renderer = "renderer" THEN Append(orphans, Orphaned)
                  ELSE orphans
    /\ UNCHANGED profileVars

\* the callback of any of the running 60-second timers: updateConditions()
ReinitPeriodic ==
    /\ intervals # {}
    /\ \E p \in ReinitPeriods : \E to \in {p, NextPeriod(p)} : updateConditions(p, to)

\* a frame callback of the renderer the module refers to
ReinitFrame == \E h \in rafQueue \ OrphanHandles : animate(h)

\* a frame callback of an earlier renderer: animate() of that instance, which
\* updates and draws its own layers on its own (detached) canvases and
\* requests the next frame
OrphanFrame ==
    /\ ~hidden
    /\ nextHandle < MaxHandle
    /\ \E i \in 1..Len(orphans) :
          /\ orphans[i].isRunning
          /\ orphans[i].animationId \in rafQueue
          /\ now > orphans[i].lastTime
          /\ orphans' = [orphans EXCEPT ![i].animationId = nextHandle + 1,
                                        ![i].lastTime = now]
          /\ rafQueue' = (rafQueue \ {orphans[i].animationId}) \cup {nextHandle + 1}
          /\ call' = [op |-> "animate", on |-> "orphan", arg |-> i]
    /\ nextHandle' = nextHandle + 1
    /\ worked' = FALSE
    /\ UNCHANGED << now, hidden, intervals, listeners, dom, timeouts, nextTimer,
                    frameTime, loaded, renderer, updateInterval, currentState,
                    isRunning, animationId, lastTime, currentTimePeriod,
                    currentPalette, canvas, deltaTime, particles, eff, drawn,
                    trace, rabbit, profileVars >>

\* pause() of the control surface on a live renderer
ReinitPause ==
    /\ loaded /\ renderer = "renderer"
    /\ LoopFields(pause(Loop))
    /\ call' = [op |-> "pause", on |-> "api", arg |-> NULL]
    /\ UNCHANGED extraVars

\* resume() of the control surface on a live renderer
ReinitResume ==
    /\ loaded /\ renderer = "renderer"
    /\ LoopFields(resume(Loop, now))
    /\ call' = [op |-> "resume", on |-> "api", arg |-> NULL]
    /\ UNCHANGED extraVars

\* the last call on the loop was pause() of the control surface, possibly
\* followed by the tab being hidden
ExplicitlyPaused == call.op = "pause" \/ (call.op = "hide" /\ call.arg = "paused")

\* the tab is hidden or shown: every registered handleVisibility() runs, the
\* earlier renderers' first
ReinitVisibility ==
    /\ hidden' = ~hidden
    /\ LET R == OrphansVisibility(orphans, rafQueue, nextHandle, ~hidden, now)
           L == IF "visibilitychange" \notin listeners
                THEN [Loop EXCEPT !.rafQueue = R.rafQueue,
                                  !.nextHandle = R.nextHandle]
                ELSE handleVisibility([Loop EXCEPT !.rafQueue = R.rafQueue,
                                                   !.nextHandle = R.nextHandle],
                                      ~hidden, now)
       IN  /\ L.nextHandle <= MaxHandle
           /\ SetLoop(L)
           /\ orphans' = R.orphans
    /\ call' = [op |-> IF hidden THEN "show" ELSE "hide", on |-> "document",
                arg |-> IF ExplicitlyPaused THEN "paused" ELSE NULL]
    /\ worked' = FALSE
    /\ UNCHANGED << now, intervals, listeners, dom, timeouts, nextTimer,
                    frameTime, loaded, renderer, updateInterval, currentState,
                    currentTimePeriod, currentPalette, canvas, deltaTime,
                    particles, eff, drawn, trace, rabbit, profileVars >>

NextReinit ==
    \/ Tick
    \/ ReinitBackground
    \/ ReinitPeriodic
    \/ ReinitFrame
    \/ OrphanFrame
    \/ ReinitPause
    \/ ReinitResume
    \/ ReinitVisibility
    \/ ApiDestroy

SpecReinit == InitReinit /\ [][NextReinit]_vars

\* =================================================================
\* Properties
\* =================================================================

\* ---- C1 ---------------------------------------------------------
LoopInvariant ==
    /\ Cardinality(rafQueue) <= 1
    /\ (rafQueue # {}) <=> isRunning
    /\ isRunning => (rafQueue = {animationId} /\ start(Loop, now) = Loop)
    /\ pause(Loop).rafQueue = {} /\ ~pause(Loop).isRunning
    /\ LET R == resume(Loop, now)
       IN  R.isRunning /\ Cardinality(R.rafQueue) = 1 /\ (isRunning => R = Loop)
    /\ worked => isRunning

\* C1: for any interleaving of start(), pause(), resume() and frame callbacks,
\* start() on a running renderer changes nothing, pause() leaves no frame
\* callback scheduled, resume() leaves exactly one; at most one callback is
\* outstanding, one is outstanding exactly when isRunning, and no frame body
\* executes from a state in which the renderer is not running.
C1_FrameLoopLifecycle == [] LoopInvariant /\ [][~isRunning => ~worked']_vars

\* a renderer that was paused after it had rendered a frame
C1_Witness == renderer # NULL /\ frameTime > 0 /\ ~isRunning /\ rafQueue = {}

\* ---- C2 ---------------------------------------------------------
\* C2: after destroy() no frame callback is outstanding, the periodic timer is
\* cleared, every listener registered by the renderer and its layers is
\* unhooked and every element it inserted is removed from the document.
C2_DestroyLeavesNothing ==
    (loaded /\ renderer = NULL) =>
        (rafQueue = {} /\ intervals = {} /\ listeners = {} /\ dom = {})

\* ---- C3 ---------------------------------------------------------
\* C3: for any order of init, start and visibilitychange events, the renderer
\* is paused while the tab is hidden: no frame callback is scheduled, and the
\* loop is not running.
C3_HiddenMeansPaused == hidden => (~isRunning /\ rafQueue = {})

\* ---- C4 ---------------------------------------------------------
\* C4: every setTimePeriod(p) call on an effect sets isActive to
\* (p = targetTimePeriod); init() runs (a new particle array) exactly when
\* isActive changes from false to true; on every other call the particle
\* array, its contents and the accumulated time are untouched.
C4_InitOnActivationEdge ==
    [][call'.op = "setTimePeriod" =>
        LET e == call'.on
            x == eff[e]
            y == eff'[e]
        IN  /\ y.isActive = (call'.arg = targetTimePeriod(e))
            /\ (y.arr # x.arr) <=> (~x.isActive /\ y.isActive)
            /\ ~(~x.isActive /\ y.isActive) =>
                  (y.arr = x.arr /\ y.age = x.age /\ y.time = x.time)
            /\ \A o \in EffectNames \ {e} : eff'[o] = eff[o]]_vars

\* a repeated call with the target period on an effect that is already active
\* and has animated: its first array and its time are still there
C4_Witness ==
    \E e \in EffectNames :
        /\ call = [op |-> "setTimePeriod", on |-> e, arg |-> targetTimePeriod(e)]
        /\ eff[e].isActive /\ eff[e].arr = 1
        /\ eff[e].time + eff[e].age > 0

\* ---- C5 ---------------------------------------------------------
\* C5: after any sequence of updateConditions and resize events an effect is
\* active iff its target period is the renderer's current period; effects of
\* different periods are never active together, and the effects that paint in
\* a frame are those of the current period.
C5_ActiveIffCurrentPeriod ==
    /\ \A e \in EffectNames :
          renderer # Uninitialised =>
              (eff[e].isActive <=> (targetTimePeriod(e) = currentTimePeriod))
    /\ \A e1, e2 \in EffectNames :
          (eff[e1].isActive /\ eff[e2].isActive) =>
              targetTimePeriod(e1) = targetTimePeriod(e2)
    /\ worked => drawn = {e \in EffectNames : targetTimePeriod(e) = currentTimePeriod}

\* the period has changed: one effect has been deactivated, another is active
C5_Witness ==
    \E e1, e2 \in EffectNames :
        ~eff[e1].isActive /\ eff[e1].arr >= 1 /\ eff[e2].isActive

\* ---- C6 ---------------------------------------------------------
\* C6: update() and draw() on an inactive effect change nothing and paint
\* nothing; resize() re-runs init() when the effect is active and does nothing
\* when it is inactive; update, draw and resize never change isActive.
C6_InactiveIsInert ==
    [][LET e == call'.on
       IN  /\ (call'.op = "update" /\ ~eff[e].isActive) => eff' = eff
           /\ (call'.op = "draw" /\ ~eff[e].isActive) => (eff' = eff /\ drawn' = {})
           /\ call'.op = "resize" =>
                 IF eff[e].isActive
                 THEN eff'[e].arr # eff[e].arr /\ eff'[e].time = eff[e].time
                 ELSE eff' = eff
           /\ call'.op \in {"update", "draw", "resize"} =>
                 eff'[e].isActive = eff[e].isActive]_vars

\* update() was called on an effect that had been active and is now inactive
C6_Witness ==
    \E e \in EffectNames :
        /\ call.on = e /\ call.op = "update"
        /\ ~eff[e].isActive /\ eff[e].arr >= 1 /\ eff[e].age > 0

\* ---- C7 ---------------------------------------------------------
\* C7: whenever no click override is active, the mascot's state is the period
\* mapping of its current period, from construction onward.
C7_StateFollowsPeriod ==
    ~rabbit.isClicking => rabbit.state = PeriodState(rabbit.timePeriod)

\* ---- C8 ---------------------------------------------------------
\* the most recent click was a daytime click and its timer has not run yet
LatestClickPending ==
    \E i \in 1..Len(timeouts) :
        timeouts[i].id = nextTimer /\ timeouts[i].delay = CLICK_JUMP_DURATION

\* C8: a click in a non-NIGHT period starts the jumping override, which lasts
\* until the timer of that click (CLICK_JUMP_DURATION after it) runs; the
\* expiry puts the state back to the period mapping.
C8_OverrideLastsItsDuration ==
    /\ call.op = "click" => rabbit.isClicking
    /\ LatestClickPending => (rabbit.isClicking /\ rabbit.state = "jumping")
    /\ call.op = "timeout" =>
          (~rabbit.isClicking /\ rabbit.state = PeriodState(rabbit.timePeriod))

\* ---- C9 ---------------------------------------------------------
\* C9: a click at NIGHT sets the state to angry and appends exactly one anger
\* mark with opacity 1 and startTime = the mascot's accumulated time; no heart
\* is added; an update in the angry state applies no jump offset.
C9_NightClickAngers ==
    [][/\ (call'.op = "click" /\ rabbit.timePeriod = "NIGHT") =>
            /\ rabbit'.state = "angry"
            /\ rabbit'.angerMarks =
                  Append(rabbit.angerMarks,
                         [opacity |-> OpacityOne, startTime |-> rabbit.time])
            /\ rabbit'.hearts = rabbit.hearts
       /\ (call'.op = "update" /\ rabbit.state = "angry") =>
            rabbit'.jumpOffset = "zero"]_vars

\* an angry mascot with its anger mark was updated; a heart of an earlier
\* daytime click is still shown
C9_Witness ==
    /\ call.op = "update" /\ rabbit.state = "angry"
    /\ Len(rabbit.angerMarks) = 1 /\ Len(rabbit.hearts) = 1

\* ---- C10 --------------------------------------------------------
\* C10: every deltaTime handed to the layers by a frame lies in (0, 100] ms,
\* including the first frame after start() and after resume().
C10_DeltaTimeInRange == worked => (deltaTime > 0 /\ deltaTime <= MAX_DELTA)

\* ---- C11 --------------------------------------------------------
\* the stage of a call in the back-to-front order of a frame
Stage(c) ==
    CASE c.op = "clearCanvas"           -> 1
      [] c.op = "drawGradient"          -> 2
      [] c.op = "drawCelestial"         -> 3
      [] c.op = "drawShapes"            -> 4
      [] c.on = "particleSystem"        -> 5
      [] c.on \in EffectNames           -> 6
      [] c.on = "rabbitCharacter"       -> 7
      [] c.op = "requestAnimationFrame" -> 8

\* the layers that are updated and drawn
UpdatedLayers == {"particleSystem", "rabbitCharacter"} \cup EffectNames

\* C11: in every executed frame the calls are in the fixed order clear,
\* gradient, celestial, shapes, particle system, effects, mascot; every layer
\* is updated exactly once and drawn directly after its update; the request of
\* the next frame is the last call, and it is the only callback outstanding.
C11_FrameOrder ==
    worked =>
        /\ \A i, j \in 1..Len(trace) : i < j => Stage(trace[i]) <= Stage(trace[j])
        /\ \A k \in 1..8 : \E i \in 1..Len(trace) : Stage(trace[i]) = k
        /\ \A l \in UpdatedLayers :
              /\ Cardinality({i \in 1..Len(trace) : trace[i] = Call("update", l)}) = 1
              /\ Cardinality({i \in 1..Len(trace) : trace[i] = Call("draw", l)}) = 1
              /\ \E i \in 1..(Len(trace) - 1) :
                    trace[i] = Call("update", l) /\ trace[i + 1] = Call("draw", l)
        /\ {i \in 1..Len(trace) : trace[i].op = "requestAnimationFrame"} = {Len(trace)}
        /\ rafQueue = {animationId}

\* a second frame has run, with effects painting
C11_Witness == worked /\ drawn # {} /\ nextHandle >= 3 /\ rabbit.time > FALLBACK_DELTA

\* ---- C12 --------------------------------------------------------
\* C12: setDebugConditions({timePeriod: p}) makes the controller state, the
\* renderer's period and the applied palette those of p, and a periodic
\* re-check that follows leaves all three at p.
C12_DebugPinPersists ==
    [][/\ call'.op = "setDebugConditions" =>
            /\ currentState' = call'.arg
            /\ currentTimePeriod' = call'.arg
            /\ currentPalette' = call'.arg
       /\ (call.op = "setDebugConditions" /\ PeriodicUpdate) =>
            /\ currentState' = call.arg
            /\ currentTimePeriod' = call.arg
            /\ currentPalette' = call.arg]_vars

\* ---- C13 --------------------------------------------------------
\* the channels getColorPalette blends
BlendedChannels(pal) ==
    [gradient |-> pal.gradient, bg |-> pal.bg, cardBg |-> pal.cardBg,
     text |-> pal.text, textMuted |-> pal.textMuted, accent |-> pal.accent,
     shadows |-> pal.shadows, gradientAngle |-> pal.gradientAngle,
     x |-> pal.celestial.x, y |-> pal.celestial.y,
     color |-> pal.celestial.color, glowColor |-> pal.celestial.glowColor]

Returned(fn) == call.op = "return" /\ call.on = fn

\* C13: for distinct periods p1, p2, getColorPalette(p2, 0, p1) has on every
\* blended channel the value of the static palette of p1.
C13_FactorZeroIsPrevious ==
    (/\ Returned("getColorPalette")
     /\ call.arg.in.k = 0
     /\ call.arg.in.previous \notin {NULL, call.arg.in.timePeriod}) =>
        BlendedChannels(call.arg.out) =
            BlendedChannels(StaticPalette(call.arg.in.previous))

\* ---- C14 --------------------------------------------------------
\* C14: for all periods p and every previous period q (or none),
\* getColorPalette(p, 1, q) is the static definition of p on every channel,
\* and getColorPalette(p, 1, p) = getColorPalette(p).
C14_FactorOneIsStatic ==
    (Returned("getColorPalette") /\ call.arg.in.k = FactorOne) =>
        /\ call.arg.out = StaticPalette(call.arg.in.timePeriod)
        /\ call.arg.out = getColorPalette(call.arg.in.timePeriod, FactorOne, NULL)
        /\ getColorPalette(call.arg.in.timePeriod, FactorOne, call.arg.in.timePeriod)
              = getColorPalette(call.arg.in.timePeriod, FactorOne, NULL)

\* a palette was built at factor 1 with a different previous period
C14_Witness ==
    /\ Returned("getColorPalette") /\ call.arg.in.k = FactorOne
    /\ call.arg.in.previous \notin {NULL, call.arg.in.timePeriod}

\* ---- C15 --------------------------------------------------------
\* the hours at which the period changes
Boundaries == {5, 11, 17, 20}

\* minutes of the day from t to the boundary hour b, on the 24-hour circle
CircularDistance(t, b) ==
    LET d == Abs((60 * t.hour + t.minutes) - 60 * b)
    IN  IF d > 12 * 60 THEN 24 * 60 - d ELSE d

NearBoundaries(t) == {b \in Boundaries : CircularDistance(t, b) <= 30}

\* the time of day one minute after t
NextMinute(t) ==
    IF t.minutes < 59 THEN [t EXCEPT !.minutes = t.minutes + 1]
    ELSE [hour |-> (t.hour + 1) % 24, minutes |-> 0]

\* C15: at every minute of the day getTimeTransition returns {p, p, 1} with
\* p = getTimePeriod when no boundary is within 30 minutes; otherwise the pair
\* of exactly that boundary: from is the period classified before the boundary,
\* to the period classified at it, the two cyclically adjacent, with a factor in
\* [0, 1] that does not decrease from one minute to the next inside the window.
C15_TransitionWindows ==
    Returned("getTimeTransition") =>
        LET t == call.arg.in
            out == call.arg.out
            near == NearBoundaries(t)
        IN  IF near = {}
            THEN out = [from |-> getTimePeriod(t.hour), to |-> getTimePeriod(t.hour),
                        factor |-> EaseOne]
            ELSE /\ Cardinality(near) = 1
                 /\ \A b \in near :
                       /\ out.from = getTimePeriod((b + 23) % 24)
                       /\ out.to = getTimePeriod(b)
                       /\ out.to = NextPeriod(out.from)
                       /\ out.factor >= 0 /\ out.factor <= EaseOne
                       /\ b \in NearBoundaries(NextMinute(t)) =>
                             out.factor <=
                                 getTimeTransition(NextMinute(t).hour,
                                                   NextMinute(t).minutes).factor

\* the first minute of a transition window: 04:30, factor 0
C15_Witness ==
    /\ Returned("getTimeTransition")
    /\ call.arg.in = [hour |-> 4, minutes |-> 30]
    /\ call.arg.out = [from |-> "NIGHT", to |-> "MORNING", factor |-> 0]

\* ---- C16 --------------------------------------------------------
\* C16: for every hour 0..23 getTimePeriod returns MORNING for 5 <= h < 11,
\* NOON for 11 <= h < 17, EVENING for 17 <= h < 20 and NIGHT for h >= 20 or
\* h < 5.
C16_PeriodsPartitionTheDay ==
    Returned("getTimePeriod") =>
        LET h == call.arg.in
            p == call.arg.out
        IN  /\ p \in TIME_PERIOD
            /\ (p = "MORNING") <=> (5 <= h /\ h < 11)
            /\ (p = "NOON") <=> (11 <= h /\ h < 17)
            /\ (p = "EVENING") <=> (17 <= h /\ h < 20)
            /\ (p = "NIGHT") <=> (h >= 20 \/ h < 5)

\* the hour before the first boundary is classified, in the NIGHT range that
\* wraps around midnight
C16_Witness == Returned("getTimePeriod") /\ call.arg.in = 4 /\ call.arg.out = "NIGHT"

\* ---- C17 --------------------------------------------------------
\* C17: the eased factor is exactly 0 half an hour before a boundary, exactly
\* one half at the boundary and exactly 1 half an hour after it, and is within
\* [0, 1] at every distance.
C17_EasedFactorEndpoints ==
    Returned("getTimeTransition") =>
        LET t == call.arg.in
            cm == 60 * t.hour + t.minutes
            f == call.arg.out.factor
        IN  /\ f >= 0 /\ f <= EaseOne
            /\ \A b \in Boundaries :
                  /\ cm = 60 * b - 30 => f = 0
                  /\ cm = 60 * b => 2 * f = EaseOne
                  /\ cm = 60 * b + 30 => f = EaseOne

\* the transition exactly at the 17:00 boundary
C17_Witness ==
    /\ Returned("getTimeTransition")
    /\ call.arg.in = [hour |-> 17, minutes |-> 0]
    /\ call.arg.out.from = "NOON" /\ call.arg.out.to = "EVENING"

\* ---- C18 --------------------------------------------------------
\* C18: resize() keeps the orbs: every depth layer holds the same orbs (same
\* random draws, same time), no new array is made, and every orb's x is
\* multiplied by newWidth / oldWidth and its y by newHeight / oldHeight.
C18_ResizeRescalesOrbs ==
    [][call'.op = "resize" =>
        /\ particles'.orbs = particles.orbs
        /\ particles'.timePeriod = particles.timePeriod
        /\ particles'.width = call'.arg.w /\ particles'.height = call'.arg.h
        /\ \A l \in 1..Len(DepthLayers) :
              /\ Len(particles'.layers[l]) = Len(particles.layers[l])
              /\ \A j \in 1..Len(particles.layers[l]) :
                    LET o == particles.layers[l][j]
                        n == particles'.layers[l][j]
                    IN  /\ n.seed = o.seed /\ n.time = o.time
                        /\ n.x.n * o.x.d * particles.width
                              = o.x.n * n.x.d * particles'.width
                        /\ n.y.n * o.y.d * particles.height
                              = o.y.n * n.y.d * particles'.height]_vars

\* orbs that had drifted were resized to a viewport of another size
C18_Witness ==
    /\ call.op = "resize" /\ particles.orbs >= 1 /\ particles.age > 0
    /\ particles.layers[1][1].x # Frac(particles.width, 4)
    /\ particles.width # LoadWindow.w

RgbaAccepted(in) ==
    in.type = "string" /\ ~At(in.chars, 1, "#") /\ RgbaMatchFrom(in.chars, 1).ok
RgbaWithoutAlpha(in) ==
    RgbaAccepted(in) /\ ~RgbaMatchFrom(in.chars, 1).hasAlpha
\* a string hexToRgb accepts
HexAccepted(in) == in.type = "string" /\ HexColorMatch(in.chars) # << >>
\* an argument parseRgbaColor cannot parse
Unparseable(in) ==
    IF in.type = "string" /\ At(in.chars, 1, "#") THEN ~HexAccepted(in)
    ELSE ~RgbaAccepted(in)

\* C20: no colour parser throws, whatever its argument: hexToRgb gives
\* {0,0,0} after a warning for a non-string and for a string that is not a hex
\* colour; both parseRgbaColor give opaque black {0,0,0,a=1} after a warning
\* for a non-string and for a string they cannot parse; an rgb()/rgba() string
\* without alpha parses with a = 1.
C20_ParsingNeverThrows ==
    LET in == call.arg.in
        out == call.arg.out
    IN  /\ Returned("hexToRgb") =>
              /\ out.value # TypeError
              /\ ~HexAccepted(in) => (out.value = Black /\ out.warns)
        /\ \A fn \in {"parseRgbaColor", "Utils_parseRgbaColor"} :
              Returned(fn) =>
                  /\ out.value # TypeError
                  /\ Unparseable(in) => (out.value = OpaqueBlack /\ out.warns)
                  /\ RgbaWithoutAlpha(in) => out.value.a = Num(1, 1)

\* the part of C20 the code keeps once non-strings and the empty string are set
\* aside: malformed strings fall back to black after a warning and a missing
\* alpha is 1
C20_StringsFallBack ==
    LET in == call.arg.in
        out == call.arg.out
        string == in.type = "string" /\ in.chars # << >>
    IN  /\ (Returned("hexToRgb") /\ string) =>
              (~HexAccepted(in) => (out.value = Black /\ out.warns))
        /\ \A fn \in {"parseRgbaColor", "Utils_parseRgbaColor"} :
              (Returned(fn) /\ string) =>
                  /\ out.value # TypeError
                  /\ Unparseable(in) => (out.value = OpaqueBlack /\ out.warns)
                  /\ RgbaWithoutAlpha(in) => out.value.a = Num(1, 1)

\* parseRgbaColor of colors.js was given a value that is not a string
C20_Throws ==
    /\ Returned("parseRgbaColor") /\ call.arg.in.type # "string"
    /\ call.arg.out.value = TypeError

\* ---- C21 --------------------------------------------------------
\* the lower-case form of a hex digit
ToLower(c) == HexLower[HexVal(c) + 1]
\* "#" followed by the six digits of a valid hex colour in lower case
Normalize(chars) ==
    << "#" >> \o [i \in 1..6 |-> ToLower(HexColorMatch(chars)[i])]
\* the channel a two-digit group of the output stands for is n / d clamped to
\* [0, 255] and rounded to the nearest integer
ClampedChannel(v, n, d) ==
    /\ v \in 0..255
    /\ n <= 0 => v = 0
    /\ n >= 255 * d => v = 255
    /\ (n > 0 /\ n < 255 * d) => (2 * v * d - 2 * n <= d /\ 2 * n - 2 * v * d <= d)

\* C21: rgbToHex returns "#" and exactly two lower-case hex digits per channel,
\* each standing for the channel clamped to [0, 255]; and for a valid hex
\* colour c in any letter case, with or without "#", rgbToHex(hexToRgb(c)) is
\* c in lower case with a leading "#".
C21_HexRoundTrip ==
    Returned("rgbToHex") =>
        LET in == call.arg.in
            out == call.arg.out
        IN  /\ out.type = "string" /\ Len(out.chars) = 7 /\ out.chars[1] = "#"
            /\ \A i \in 2..7 : \E j \in 1..16 : out.chars[i] = HexLower[j]
            /\ ClampedChannel(ParseHexPair(out.chars[2], out.chars[3]), in.r, in.d)
            /\ ClampedChannel(ParseHexPair(out.chars[4], out.chars[5]), in.g, in.d)
            /\ ClampedChannel(ParseHexPair(out.chars[6], out.chars[7]), in.b, in.d)
            /\ HexAccepted(in.from) => out.chars = Normalize(in.from.chars)

\* a valid colour written without "#" and with an upper-case digit and a
\* channel below 16 went through hexToRgb and rgbToHex
C21_Witness ==
    /\ Returned("rgbToHex") /\ HexAccepted(call.arg.in.from)
    /\ call.arg.in.from.chars[1] = "4" /\ call.arg.in.from.chars[2] = "A"
    /\ call.arg.in.g < 16
    /\ call.arg.out.chars # << "#" >> \o call.arg.in.from.chars

\* rgbToHex was given a channel below 0, a channel above 255 and a channel
\* with a fractional part
C21_WitnessClamped ==
    /\ Returned("rgbToHex") /\ call.arg.in.from = NotParsed
    /\ call.arg.in.r < 0 /\ call.arg.in.g > 255 * call.arg.in.d
    /\ call.arg.in.b % call.arg.in.d # 0

\* ---- C22 --------------------------------------------------------
\* the page has just been (re)loaded and nothing has been clicked
JustLoaded == call.op \in {"none", "reload"}

C22_OwnValuesOnly ==
    getStoredLang(localStorage) \in Languages \cup {NULL} => currentLang \in Languages

\* the page was loaded with a stored value that is not a language, and the
\* card shows the error text with no toggle to leave it
C22_ForeignValue ==
    /\ currentLang \notin Languages /\ content = "error"
    /\ call.arg = "TypeError" /\ listeners = {}

\* ---- C23 --------------------------------------------------------
\* the 60-second re-check found the period the renderer already had
SamePeriodRecheck ==
    /\ PeriodicUpdate /\ renderer = "renderer"
    /\ currentTimePeriod # NULL /\ currentTimePeriod' = currentTimePeriod

\* C23: a periodic re-check that reports the same period as before leaves the
\* state of every layer in place: the orbs of the ParticleSystem, the arrays
\* and clocks of the five effects, and the mascot.
C23_RecheckKeepsLayers ==
    [][SamePeriodRecheck => (particles' = particles /\ eff' = eff /\ rabbit' = rabbit)]_vars

\* the part of C23 that holds: the effects and the mascot are left as they are
C23_RecheckKeepsEffects ==
    [][SamePeriodRecheck => (eff' = eff /\ rabbit' = rabbit)]_vars

\* ---- C24 --------------------------------------------------------
\* the start times, in order, of the entries of a list that are younger than
\* `duration` at time t
StartTimes(list) == [i \in 1..Len(list) |-> list[i].startTime]
Younger(list, t, duration) ==
    LET Alive(e) == t - e.startTime < duration
    IN  StartTimes(SelectSeq(list, Alive))
\* every entry of the list has an opacity in (0, 1]
Visible(list) ==
    \A i \in 1..Len(list) : list[i].opacity > 0 /\ list[i].opacity <= OpacityOne
HasEntry(list, s) == \E i \in 1..Len(list) : list[i].startTime = s
\* the values the mascot's clock takes
HeartClock == {t \in 0..MaxHeartTime : t % 100 = 0}

\* C24: an update() keeps exactly the hearts younger than 1000 ms and the
\* anger marks younger than 800 ms (an entry goes at the first update at
\* which its opacity is <= 0), in their order; every entry in the lists has
\* an opacity in (0, 1]; and while frames keep running, every entry that is
\* appended is eventually removed, whatever the clicks.
C24_OverlaysSelfLimit ==
    /\ [][HeartsUpdate =>
            /\ StartTimes(rabbit'.hearts)
                  = Younger(rabbit.hearts, rabbit'.time, HEART_DURATION)
            /\ StartTimes(rabbit'.angerMarks)
                  = Younger(rabbit.angerMarks, rabbit'.time, ANGER_DURATION)]_vars
    /\ [](Visible(rabbit.hearts) /\ Visible(rabbit.angerMarks))
    /\ \A s \in HeartClock :
          /\ HasEntry(rabbit.hearts, s) ~> ~HasEntry(rabbit.hearts, s)
          /\ HasEntry(rabbit.angerMarks, s) ~> ~HasEntry(rabbit.angerMarks, s)

\* after two clicks, an update at 1000 ms has removed the entry of the first
\* click and kept the heart of the second
C24_Witness ==
    /\ call.op = "update" /\ rabbit.time = HEART_DURATION /\ nextTimer = 2
    /\ Len(rabbit.hearts) = 1 /\ rabbit.hearts[1].startTime > 0
    /\ rabbit.hearts[1].opacity < OpacityOne
    /\ rabbit.angerMarks = << >>

\* C25: whenever the tab becomes visible while the renderer's listener is
\* registered, the loop is running afterwards with a frame requested,
\* whatever stopped it: a pause() of the control surface before or while
\* the tab was hidden does not survive
C25_ShowAlwaysResumes ==
    [][(ReinitVisibility /\ hidden /\ "visibilitychange" \in listeners)
        => /\ isRunning'
           /\ animationId' # NoHandle
           /\ animationId' \in rafQueue'
           /\ (~isRunning => lastTime' = now /\ animationId' = nextHandle')]_vars

C25_Witness ==
    /\ call.op = "show" /\ call.arg = "paused"
    /\ renderer = "renderer"
    /\ ~hidden
    /\ isRunning /\ animationId \in rafQueue

\* C28: initBackground() on a page whose earlier renderer is live leaves that
\* renderer as it is (loop fields, pending frame, listeners), keeps the
\* earlier 60-second timer and overwrites the module's two handles; destroy()
\* then stops the newest renderer and timer only; an earlier renderer that is
\* running always has a frame requested, and every earlier renderer has left
\* a timer running
C28_ReinitLeavesEarlierRunning ==
    /\ [][(ReinitBackground /\ renderer = "renderer")
            => /\ orphans' = Append(orphans,
                      [isRunning |-> isRunning, animationId |-> animationId,
                       lastTime |-> lastTime, listening |-> TRUE])
               /\ rafQueue \subseteq rafQueue'
               /\ intervals \subseteq intervals'
               /\ updateInterval \in intervals'
               /\ updateInterval' \in intervals' \ intervals
               /\ animationId' \in rafQueue' \ rafQueue]_vars
    /\ [][ApiDestroy
            => /\ orphans' = orphans
               /\ intervals' = intervals \ {updateInterval}
               /\ rafQueue' = rafQueue \ {animationId}
               /\ OrphanHandles \cap rafQueue \subseteq rafQueue']_vars
    /\ [](\A i \in 1..Len(orphans) :
             /\ orphans[i].listening
             /\ orphans[i].isRunning => orphans[i].animationId \in rafQueue)
    /\ [](Cardinality(intervals \ {updateInterval}) >= Len(orphans))

\* after destroy() an earlier renderer has drawn a frame and an earlier timer
\* is running
C28_Witness ==
    /\ renderer = NULL /\ updateInterval = NoHandle
    /\ call.op = "animate" /\ call.on = "orphan"
    /\ Len(orphans) = 1
    /\ orphans[1].isRunning /\ orphans[1].animationId \in rafQueue
    /\ orphans[1].lastTime > lastTime
    /\ intervals # {}
    /\ ~isRunning

\* C26: a click appends one timer of its own delay and leaves the timers of
\* earlier clicks pending; every timer that runs clears isClicking and puts
\* the state back to the period mapping, also while the timer of a later
\* click is pending, and timers run in the order they fall due
C26_TimersAreNotCancelled ==
    /\ [][call'.op = "click"
            => /\ Len(timeouts') = Len(timeouts) + 1
               /\ SubSeq(timeouts', 1, Len(timeouts)) = timeouts
               /\ timeouts'[Len(timeouts')] =
                     [id |-> nextTimer', delay |-> ClickTimeout(rabbit),
                      due |-> now + ClickTimeout(rabbit)]
               /\ rabbit'.isClicking]_vars
    /\ [][call'.op = "timeout"
            => /\ ~rabbit'.isClicking
               /\ rabbit'.state = PeriodState(rabbit.timePeriod)
               /\ Len(timeouts') = Len(timeouts) - 1
               /\ \E i \in 1..Len(timeouts) :
                     /\ timeouts[i].id = call'.arg
                     /\ timeouts[i].due <= now
                     /\ \A j \in 1..Len(timeouts) : timeouts[j].due >= timeouts[i].due]_vars

\* the timer of the first of two clicks has just run: the override is over
\* while the second click's timer has not fallen due
C26_Witness ==
    /\ call.op = "timeout" /\ call.arg = nextTimer - 1
    /\ ~rabbit.isClicking
    /\ rabbit.state = PeriodState(rabbit.timePeriod)
    /\ Len(timeouts) = 1
    /\ timeouts[1].id = nextTimer
    /\ timeouts[1].due > now
    /\ timeouts[1].due - timeouts[1].delay > 0

\* the period last passed to setTimePeriod, as the calls record it
PeriodChangesOnlyBySet ==
    rabbit'.timePeriod # rabbit.timePeriod
        => call'.op = "setTimePeriod" /\ rabbit'.timePeriod = call'.arg

\* C27: setTimePeriod during a click override stores the period and leaves
\* the state and the override as they are; the period changes by
\* setTimePeriod only; the timer that ends an override sets the state to the
\* mapping of the stored period, which is the one set most recently
C27_OverrideDefersPeriodChange ==
    /\ [][(call'.op = "setTimePeriod" /\ rabbit.isClicking)
            => /\ rabbit'.timePeriod = call'.arg
               /\ rabbit'.state = rabbit.state
               /\ rabbit'.isClicking]_vars
    /\ [][call'.op = "setTimePeriod" => rabbit'.timePeriod = call'.arg]_vars
    /\ [][PeriodChangesOnlyBySet]_vars
    /\ [][call'.op = "timeout"
            => /\ rabbit'.timePeriod = rabbit.timePeriod
               /\ rabbit'.state = PeriodState(rabbit.timePeriod)
               /\ ~rabbit'.isClicking]_vars

\* a daytime click, then setTimePeriod(NIGHT) during the override, then the
\* click's timer: the mascot sleeps, and its heart is still shown
C27_Witness ==
    /\ call.op = "timeout"
    /\ rabbit.timePeriod = "NIGHT" /\ rabbit.state = "sleeping"
    /\ ~rabbit.isClicking
    /\ Len(rabbit.hearts) = 1 /\ rabbit.angerMarks = << >>
    /\ nextTimer = 1 /\ timeouts = << >>

\* during the override of a daytime click the period was changed to NIGHT:
\* the mascot is still jumping
C27_WitnessDuring ==
    /\ call.op = "setTimePeriod" /\ call.arg = "NIGHT"
    /\ rabbit.isClicking /\ rabbit.state = "jumping"
    /\ rabbit.timePeriod = "NIGHT"

\* the minute of the day
MinuteOfDay(t) == 60 * t.hour + t.minutes

\* t lies in the 30 minutes before the start of a period
BeforeBoundary(t) ==
    \E p \in TIME_PERIOD :
        /\ MinuteOfDay(t) >= 60 * TIME_PERIODS(p).start - TransitionWindow
        /\ MinuteOfDay(t) < 60 * TIME_PERIODS(p).start

\* what the claim says of an update at the instant t
ConditionsAt(t, out) ==
    /\ out.timePeriod = getTimePeriod(t.hour)
    /\ IF BeforeBoundary(t)
       THEN /\ out.palette.timePeriod = NextPeriod(out.timePeriod)
            /\ out.palette.timePeriod # out.timePeriod
       ELSE out.palette.timePeriod = out.timePeriod

\* C29: the period passed to the renderer is getTimePeriod at the instant of
\* the update and the palette is keyed by the transition's `to` period: in
\* the 30 minutes before a boundary the period is the outgoing one and
\* palette.timePeriod the incoming one; at and after the boundary and outside
\* the windows they are equal.  The instant is one of the update's two
\* clock reads.
C29_PeriodAndPaletteKey ==
    Returned("updateConditions") =>
        \E t \in {call.arg.in.first, call.arg.in.second} :
            ConditionsAt(t, call.arg.out)

\* the same with the instant taken to be the first clock read
C29_AtFirstRead ==
    Returned("updateConditions") => ConditionsAt(call.arg.in.first, call.arg.out)

\* an update at 10:45: the renderer is given MORNING, the palette is NOON's
C29_Witness ==
    /\ Returned("updateConditions")
    /\ call.arg.in.first = [hour |-> 10, minutes |-> 45]
    /\ call.arg.in.second = call.arg.in.first
    /\ call.arg.out.timePeriod = "MORNING"
    /\ call.arg.out.palette.timePeriod = "NOON"

\* an update at 11:00 sharp: both are NOON
C29_WitnessAtBoundary ==
    /\ Returned("updateConditions")
    /\ call.arg.in.first = [hour |-> 11, minutes |-> 0]
    /\ call.arg.in.second = call.arg.in.first
    /\ call.arg.out.timePeriod = "NOON"
    /\ call.arg.out.palette.timePeriod = "NOON"

\* the timer showFlipHint() sets: 300 ms, adds the hint class
HintTimerPending ==
    \E i \in 1..Len(timeouts) :
        timeouts[i].fn = "hint" /\ timeouts[i].delay = FADE_IN_DELAY

\* C30: setupFlipToggle sets the blocking flag at once and starts the 300 ms
\* timer; the timer adds the hint class and the once-listener and leaves the
\* flag set; on a loaded page the flag is cleared only by an animationend
\* event of the card that finds that listener, i.e. after the hint class
\* was added; a card click while the flag is set, and a click on a link or
\* button at any time, changes no class and sets no timer; a flipped card
\* is never seen with the flag set
C30_FlipBlockedUntilHintEnds ==
    /\ [][(call'.op = "loadContent" /\ call'.arg = "ok")
            => /\ isHintAnimating'
               /\ timeouts' = Append(timeouts,
                     [id |-> nextTimer', fn |-> "hint", delay |-> FADE_IN_DELAY,
                      due |-> now + FADE_IN_DELAY])
               /\ cardClasses' = cardClasses]_vars
    /\ [][(call'.op = "timeout" /\ call'.on = "hint")
            => /\ now >= FADE_IN_DELAY
               /\ "hint" \in cardClasses'
               /\ CardAnimationEnd \in listeners'
               /\ isHintAnimating' = isHintAnimating]_vars
    /\ [][(isHintAnimating /\ ~isHintAnimating' /\ content' = "profile")
            => /\ call'.op = "animationend"
               /\ CardAnimationEnd \in listeners
               /\ "hint" \in cardClasses
               /\ ~HintTimerPending]_vars
    /\ [][(call'.op = "click" /\ call'.on \in ClickTargets
              /\ (isHintAnimating \/ call'.on = "a, button"))
            => /\ cardClasses' = cardClasses
               /\ timeouts' = timeouts]_vars
    /\ [](isHintAnimating => cardClasses \subseteq {"hint"})
    /\ []((content = "profile" /\ HintTimerPending) => isHintAnimating)

\* the hint animation has ended and a click on the card has flipped it
C30_Witness ==
    /\ call.op = "click" /\ call.on = "card"
    /\ cardClasses = {"flipped", "flipping"}
    /\ ~isHintAnimating
    /\ CardAnimationEnd \notin listeners
    /\ now >= FADE_IN_DELAY

\* a click on the card while the hint is playing: nothing but the hint class
C30_WitnessBlocked ==
    /\ call.op = "click" /\ call.on = "card"
    /\ isHintAnimating
    /\ cardClasses = {"hint"}
    /\ timeouts = << >>

====
